---- MODULE Spec2Model ----
(***************************************************************************)
(* Tappi-share: the signaling negotiator, its three transports (manual,    *)
(* WebSocket, MQTT), the part of the application main loop that feeds the  *)
(* manual transport, and the file transfer over the data channel (meta     *)
(* pass, data pass, receiver, backpressure), as a state machine over two   *)
(* peers.                                                                  *)
(***************************************************************************)
EXTENDS Integers, Sequences, FiniteSets, Bags, TLC

(***************************************************************************)
(* Bounds of the model.                                                    *)
(***************************************************************************)
\* number of distinct non-edge values Uuid::new_v4 is sampled from
NumUuids == 2
\* number of same-UUID re-rolls one negotiator run is followed through
MaxRerolls == 2
\* number of distinct shared secrets (keys) besides "no secret"
NumKeys == 1
\* number of paste key presses of the user per peer
MaxPastes == 2

\* publishes the broker may deliver a second time to one subscriber
MaxDups == 1

\* number of files add_output_files enumerates
MaxFiles == 2
\* greatest file size, in bytes
MaxSize == 2
\* greatest length of a file's metadata JSON, in bytes
MaxMetaLen == 3
\* greatest payload capacity chunk_size - BASE_LENGTH, in bytes
MaxPayload == 2

\* packets a remote peer has sent before the receiver looks at them
MaxFrames == 3
\* calls of the receiver's message handler that may be under way at once
MaxCalls == 2

\* WebSocket connections the server accepts for the room id
MaxConns == 3
\* frames a user sends to the server
MaxInbound == 1

(***************************************************************************)
(* Program constants.                                                      *)
(***************************************************************************)
\* a UUID is 16 bytes
UuidLen == 16
\* the greatest byte, 0xFF
ByteMax == 255

\* bytes of a packed frame besides its payload
BASE_LENGTH == 13

\* Room::new: capacity
Capacity == 2

Peers == {1, 2}

Other(p) == 3 - p

(***************************************************************************)
(* UUIDs: byte arrays compared in lexicographic byte order.                *)
(***************************************************************************)
UuidNil == [i \in 1..UuidLen |-> 0]

UuidFull == [i \in 1..UuidLen |-> ByteMax]

\* the k-th sample of the generator: one byte set, the others zero
UuidSample(k) ==
    [i \in 1..UuidLen |->
        IF i = UuidLen - ((k - 1) % UuidLen) THEN 1 + ((k - 1) \div UuidLen) ELSE 0]

\* Uuid::new_v4(): any 128-bit value of the sample, the edge cases included
NewV4 == {UuidNil, UuidFull} \cup {UuidSample(k) : k \in 1..NumUuids}

ExcludeEdgeCasesNoFilter == NewV4

\* Uuid::exclude_edge_cases(): loop until the value is neither nil nor full
ExcludeEdgeCases == {id \in NewV4 : id # UuidNil /\ id # UuidFull}

\* derived Ord of Uuid: lexicographic on the bytes
UuidLess(a, b) ==
    \E i \in 1..UuidLen : a[i] < b[i] /\ \A j \in 1..(i - 1) : a[j] = b[j]

(***************************************************************************)
(* Signaling messages, their JSON text and the symmetric envelope.         *)
(* A text is [key, type, uuid, sdp]: key 0 is plain text, key k > 0 is a   *)
(* token encrypted under secret k; type "Junk" is text that is no JSON of  *)
(* a SignalingMessage, type "Empty" is the empty string.                   *)
(***************************************************************************)
MsgTypes == {"Uuid", "Offer", "Answer"}

MsgUuid(u) == [type |-> "Uuid", uuid |-> u, sdp |-> 0]

MsgOffer(s) == [type |-> "Offer", uuid |-> UuidNil, sdp |-> s]

MsgAnswer(s) == [type |-> "Answer", uuid |-> UuidNil, sdp |-> s]

NoMsg == [type |-> "None", uuid |-> UuidNil, sdp |-> 0]

EmptyText == [key |-> 0, type |-> "Empty", uuid |-> UuidNil, sdp |-> 0]

JunkText == [key |-> 0, type |-> "Junk", uuid |-> UuidNil, sdp |-> 0]

IsEmpty(text) == text.key = 0 /\ text.type = "Empty"

\* serde_json::to_string(&message)
ToJson(m) == [key |-> 0, type |-> m.type, uuid |-> m.uuid, sdp |-> m.sdp]

\* serde_json::from_str::<SignalingMessage>(&text)
FromJson(text) ==
    IF text.key = 0 /\ text.type \in MsgTypes
    THEN [ok |-> TRUE, msg |-> [type |-> text.type, uuid |-> text.uuid, sdp |-> text.sdp]]
    ELSE [ok |-> FALSE, msg |-> NoMsg]

\* try_encrypt_claims: wrap under the secret when there is one
TryEncryptClaims(text, secret) ==
    IF secret # 0 THEN [text EXCEPT !.key = secret] ELSE text

\* try_decrypt_claims: unwrap under the secret when there is one; fails on a
\* text that is no token of that key
TryDecryptClaims(text, secret) ==
    IF secret # 0
    THEN IF text.key = secret
         THEN [ok |-> TRUE, text |-> [text EXCEPT !.key = 0]]
         ELSE [ok |-> FALSE, text |-> EmptyText]
    ELSE [ok |-> TRUE, text |-> text]

(***************************************************************************)
(* File transfer: frames, metadata JSON, file contents, progress.          *)
(* Bytes are numbers 0..255; a Vec<u8> is a sequence of them.              *)
(***************************************************************************)
Min(a, b) == IF a < b THEN a ELSE b

\* a u32 in network byte order
BigEndian4(n) ==
    <<(n \div 16777216) % 256, (n \div 65536) % 256, (n \div 256) % 256, n % 256>>

FromBigEndian4(b) == ((b[1] * 256 + b[2]) * 256 + b[3]) * 256 + b[4]

\* MessagePack true (0xc3) and false (0xc2)
BoolByte(b) == IF b THEN 195 ELSE 194

\* MessagePack: fixarray of 4 (0x94), uint 32 (0xce), two booleans, bin 32 (0xc6)
Pack(id, meta, last, chunk) ==
    <<148, 206>> \o BigEndian4(id) \o <<BoolByte(meta), BoolByte(last), 198>>
        \o BigEndian4(Len(chunk)) \o chunk

NoPacket == [ok |-> FALSE, id |-> 0, meta |-> FALSE, last |-> FALSE, binary |-> <<>>]

\* rmpp::unpack and Packet::new: an error for bytes that are no such array
Unpack(bytes) ==
    IF /\ Len(bytes) >= BASE_LENGTH
       /\ bytes[1] = 148 /\ bytes[2] = 206
       /\ bytes[7] \in {194, 195} /\ bytes[8] \in {194, 195}
       /\ bytes[9] = 198
       /\ Len(bytes) = BASE_LENGTH + FromBigEndian4(SubSeq(bytes, 10, 13))
    THEN [ok |-> TRUE,
          id |-> FromBigEndian4(SubSeq(bytes, 3, 6)),
          meta |-> bytes[7] = 195,
          last |-> bytes[8] = 195,
          binary |-> SubSeq(bytes, 14, Len(bytes))]
    ELSE NoPacket

\* Packet::new: array[k] of a fixarray with fewer than 4 entries, each of the
\* type its place asks for, panics at the first index that is missing
Panics(bytes) ==
    /\ Len(bytes) >= 1
    /\ bytes[1] \in 144..147
    /\ LET n == bytes[1] - 144
       IN  /\ Len(bytes) = 1 + (IF n >= 1 THEN 5 ELSE 0) + (IF n >= 2 THEN 1 ELSE 0)
                             + (IF n >= 3 THEN 1 ELSE 0)
           /\ n >= 1 => bytes[2] = 206
           /\ n >= 2 => bytes[7] \in {194, 195}
           /\ n >= 3 => bytes[8] \in {194, 195}

BufferSizeWhole(size) == size

\* send_all_meta, send_file_data: let buffer_size = chunk_size - BASE_LENGTH
BufferSize(size) == size - BASE_LENGTH

\* MetaData as far as the transfer reads it; the path is told by the file's id
MetaData(is_dir, size, len) == [is_dir |-> is_dir, size |-> size, len |-> len]

\* serde_json::to_string(&f.meta): a text of meta.len bytes whose first byte tells
\* is_dir, size and the length of the text, and whose k-th byte is k
MetaJson(meta) ==
    [k \in 1..meta.len |->
        IF k = 1
        THEN (IF meta.is_dir THEN 128 ELSE 0) + meta.size * 8 + meta.len
        ELSE k]

NoMeta == [ok |-> FALSE, meta |-> MetaData(FALSE, 0, 0)]

\* serde_json::from_str::<MetaData>: an error for a text cut short or drawn out
MetaFromJson(bytes) ==
    IF Len(bytes) = 0
    THEN NoMeta
    ELSE LET meta == MetaData(bytes[1] >= 128, (bytes[1] % 128) \div 8, bytes[1] % 8)
         IN  IF bytes = MetaJson(meta) THEN [ok |-> TRUE, meta |-> meta] ELSE NoMeta

\* the bytes of the file with this id on the sender's disk
Content(id, size) == [k \in 1..size |-> 16 * (id + 1) + k]

\* one turn of the loop of send_meta_string at `counter`: the slice panics when
\* it ends past the string
MetaChunk(bytes, counter, buffer_size) ==
    LET string_size == Len(bytes)
        borrow_size == Min(buffer_size, string_size)
        new_counter == counter + borrow_size
    IN  [panic |-> new_counter > string_size,
         new_counter |-> new_counter,
         chunk |-> SubSeq(bytes, counter + 1, Min(new_counter, string_size)),
         last |-> borrow_size >= string_size]

\* progress values are fractions <<numerator, denominator>>
One == <<1, 1>>

Zero == <<0, 1>>

FracLess(a, b) == a[1] * b[2] < b[1] * a[2]

\* send_data: (counter / file_size).clamp(0.0, 0.99)
Clamp(counter, file_size) ==
    IF counter * 100 > 99 * file_size THEN <<99, 100>> ELSE <<counter, file_size>>

\* Message, and its JSON text
FileReceived(id) == [type |-> "FileReceived", id |-> id, len |-> 0]

FilePacketReceived(id, len) == [type |-> "FilePacketReceived", id |-> id, len |-> len]

\* the text names the variant by a number: 1 FileReceived, 2 FilePacketReceived
MessageToJson(m) == <<IF m.type = "FileReceived" THEN 1 ELSE 2, m.id, m.len>>

MessageFromJson(t) ==
    [type |-> IF t[1] = 1 THEN "FileReceived" ELSE "FilePacketReceived",
     id |-> t[2], len |-> t[3]]

\* a DataChannelMessage
Binary(bytes) == [is_string |-> FALSE, data |-> bytes]

Text(m) == [is_string |-> TRUE, data |-> MessageToJson(m)]

(***************************************************************************)
(* State.                                                                  *)
(***************************************************************************)
VARIABLES
    transport,    \* args.signaling_mode: "manual", "ws" or "mqtt"
    args_polite,  \* SignalingSolutionManualArgs.polite of each peer
    secret,       \* args.secret of each peer: 0 is None
    uuid,         \* Negotiator.uuid
    pc,           \* position of Negotiator::run
    rerolls,      \* number of re-rolls of Negotiator.uuid so far
    role,         \* the `polite` computed by the last handle_uuid
    sig,          \* signaling state of the RTCPeerConnection
    bus,          \* the event queue (EventHandler sender/receiver)
    errq,         \* the error channel (ErrorTX / App.error_rx)
    irx,          \* SignalingManual.irx: incoming SignalingMessages
    rx,           \* SignalingWebsocket.rx / SignalingMqtt.rx: incoming texts
    wire,         \* frames or publishes under way to each peer
    sock,         \* state of the peer's upstream connection
    task,         \* the transport's receive task
    out,          \* what each peer put on its transport, in order
    retain_flag,  \* SignalingMqtt.retain_flag
    retained,     \* the broker's retained message on each peer's local topic
    subscribed,   \* whether the broker holds the peer's subscription
    app,          \* App fields the client handler reads and writes
    token,        \* App.cancellation_token is cancelled
    pastes,       \* paste key presses so far
    dups          \* publishes the broker delivered a second time, per subscriber

\* The file transfer over the data channel.
VARIABLES
    chunk_size,         \* ClientArgs.chunk_size
    files,              \* the OutputFiles enumerated by add_output_files, in order
    congested,          \* whether a send may push buffered_amount over the threshold
    output_queue,       \* FileManager.output_queue of each peer
    output_map,         \* FileManager.output_map of each peer: id -> progress, finished
    meta_task,          \* the task running payload::send_all_meta
    data_task,          \* the task running payload::send_file_data
    chan,               \* what each peer sent on the data channel, in order
    rcvd,               \* how many of the remote peer's messages on_message was called for
    metadata_map,       \* on_message: assembled MetaData by id, with progress_bytes
    metadata_bytes_map, \* on_message: partial metadata bytes by id
    part,               \* each peer's files <destination>.part, by id
    final,              \* each peer's files <destination>, by id
    handler,            \* the call of handle_message under way, and what it has left to do
    buffered,           \* buffered_amount > buffered_amount_low_threshold
    ever_low,           \* on_buffered_amount_low fired since WebConnection::new
    event_log,          \* the events the sending tasks sent to the main loop so far,
                        \* and the events handle_message sent for the display
    calls               \* calls of handle_message that run at the same time: the
                        \* packet of each and the lock it is at

\* The rendezvous server, for one room id.
VARIABLES
    rooms,        \* Rooms: the Room registered under the room id, 0 for none
    room_objs,    \* every Room created so far: its users map and its history
    next_userid,  \* NEXT_USERID
    conn,         \* the call of connect for each WebSocket connection
    srv_log,      \* the AppEventServer events sent so far, as a bag
    srv_run       \* the server's App: whether its token is cancelled, and the
                  \* task of server::signal::main

negVars == <<uuid, pc, rerolls, role, sig>>

srvVars == <<rooms, room_objs, next_userid, conn, srv_log, srv_run>>

netVars == <<rx, wire, sock, task, out, retain_flag, retained, subscribed>>

appVars == <<app, token, pastes>>

cfgVars == <<transport, args_polite, secret>>

xferVars == <<chunk_size, files, congested, output_queue, output_map, meta_task,
              data_task, chan, rcvd, metadata_map, metadata_bytes_map, part, final,
              handler, buffered, ever_low, event_log, calls>>

\* what the signaling handlers never write
extVars == <<dups, xferVars, srvVars>>

\* everything the handshake writes
hsVars == <<cfgVars, negVars, netVars, irx, dups>>

vars == <<cfgVars, negVars, netVars, appVars, bus, errq, irx, extVars>>

(***************************************************************************)
(* Events on the bus: [ev, state, flag, text].                             *)
(***************************************************************************)
UpdateHandshakeStateNoOffer(s) ==
    [ev |-> "UpdateHandshakeState",
     state |-> IF s = "OfferReceived" THEN "UUIDReceived" ELSE s,
     flag |-> FALSE, text |-> EmptyText]

UpdateHandshakeState(s) ==
    [ev |-> "UpdateHandshakeState", state |-> s, flag |-> FALSE, text |-> EmptyText]

ManualSignalingInit(polite) ==
    [ev |-> "ManualSignalingInit", state |-> "", flag |-> polite, text |-> EmptyText]

ManualSignalingInput(text) ==
    [ev |-> "ManualSignalingInput", state |-> "", flag |-> FALSE, text |-> text]

ManualSignalingOutput(text) ==
    [ev |-> "ManualSignalingOutput", state |-> "", flag |-> FALSE, text |-> text]

\* one entry of `out`
Sent(text, retain, via) == [text |-> text, retain |-> retain, via |-> via]

\* App::new; result is what App::run has returned: "Running" before it did
AppInit ==
    [exit |-> FALSE, error |-> "", input_text |-> EmptyText,
     output_text |-> EmptyText, handshake_state |-> "Initial", polite |-> "None",
     result |-> "Running"]

\* the events of the file transfer
ChannelOpened == [ev |-> "ChannelOpened"]

MetaSent == [ev |-> "MetaSent"]

OutputFileFinished == [ev |-> "OutputFileFinished"]

OutputFileProgress(id, progress) ==
    [ev |-> "OutputFileProgress", id |-> id, progress |-> progress]

MessageReceived(m) == [ev |-> "MessageReceived", msg |-> m]

InputFileProgress(id, progress) ==
    [ev |-> "InputFileProgress", id |-> id, progress |-> progress]

InputFileNew(id) == [ev |-> "InputFileNew", id |-> id]

(***************************************************************************)
(* Init: App::new, startup, Negotiator::new.                               *)
(***************************************************************************)
\* a task that was not spawned
NoTask ==
    [st |-> "none", files |-> <<>>, i |-> 0, counter |-> 0,
     unseen |-> FALSE, waiting |-> FALSE]

\* a task that ended: "done", or "panicked"
Ended(st) == [NoTask EXCEPT !.st = st]

\* no call of handle_message under way
NoHandler == [todo |-> <<>>, unseen |-> FALSE, waiting |-> FALSE]

Calls == 1..MaxCalls

\* a call of handle_message that is not under way
NoCall == [at |-> "idle", packet |-> NoPacket]

\* a call of handle_message that panicked inside the task that reads the channel
Panicked ==
    [todo |-> <<[op |-> "panic", msg |-> FileReceived(0), id |-> 0]>>,
     unseen |-> FALSE, waiting |-> FALSE]

\* FileManager::new, on_message: empty queue and maps
XferCommon ==
    /\ meta_task = [p \in Peers |-> NoTask]
    /\ data_task = [p \in Peers |-> NoTask]
    /\ chan = [p \in Peers |-> <<>>]
    /\ rcvd = [p \in Peers |-> 0]
    /\ metadata_map = [p \in Peers |-> << >>]
    /\ metadata_bytes_map = [p \in Peers |-> << >>]
    /\ handler = [p \in Peers |-> NoHandler]
    /\ calls = [h \in Calls |-> NoCall]
    /\ buffered = [p \in Peers |-> FALSE]
    /\ ever_low = [p \in Peers |-> FALSE]
    /\ event_log = [p \in Peers |-> <<>>]

\* a client started without files, before the data channel opens
XferIdle ==
    /\ chunk_size = 0
    /\ files = <<>>
    /\ congested = FALSE
    /\ output_queue = [p \in Peers |-> <<>>]
    /\ output_map = [p \in Peers |-> << >>]
    /\ part = [p \in Peers |-> << >>]
    /\ final = [p \in Peers |-> << >>]
    /\ XferCommon

Conns == 1..MaxConns

\* connect before join_room: no RoomUser, nothing sent either way
NoConn ==
    [pc |-> "idle", uid |-> 0, room |-> 0, held |-> 0, at_join |-> <<>>,
     rx |-> <<>>, socket |-> <<>>, inbound |-> <<>>, fwd |-> "none"]

\* server::signal::main: Rooms::default(), NEXT_USERID = 1
SrvInit ==
    /\ rooms = 0
    /\ room_objs = <<>>
    /\ next_userid = 1
    /\ conn = [c \in Conns |-> NoConn]
    /\ srv_log = EmptyBag
    /\ srv_run = [token |-> FALSE, main |-> "serving"]

InitSignaling ==
    /\ SrvInit
    /\ pc = [p \in Peers |-> "start"]
    /\ rerolls = [p \in Peers |-> 0]
    /\ role = [p \in Peers |-> "None"]
    /\ sig = [p \in Peers |-> "stable"]
    /\ bus = [p \in Peers |-> <<>>]
    /\ errq = [p \in Peers |-> <<>>]
    /\ irx = [p \in Peers |-> <<>>]
    /\ rx = [p \in Peers |-> <<>>]
    /\ wire = [p \in Peers |-> <<>>]
    /\ sock = [p \in Peers |-> "open"]
    /\ task = [p \in Peers |-> "none"]
    /\ out = [p \in Peers |-> <<>>]
    /\ retain_flag = [p \in Peers |-> TRUE]
    /\ retained = [p \in Peers |-> EmptyText]
    /\ subscribed = [p \in Peers |-> FALSE]
    /\ app = [p \in Peers |-> AppInit]
    /\ token = [p \in Peers |-> FALSE]
    /\ pastes = [p \in Peers |-> 0]
    /\ dups = [p \in Peers |-> 0]

InitCommon == InitSignaling /\ XferIdle

\* a file on the receiver's disk
Absent == [exists |-> FALSE, bytes |-> <<>>]

OnDisk(bytes) == [exists |-> TRUE, bytes |-> bytes]

\* what a transfer that was aborted earlier left under a .part name
StalePart == OnDisk(<<7>>)

\* the MetaData add_output_files can build: directories have size 0
MetaChoices ==
    {MetaData(FALSE, size, len) : size \in 0..MaxSize, len \in 1..MaxMetaLen}
        \cup {MetaData(TRUE, 0, len) : len \in 1..MaxMetaLen}

\* OutputFile::new: ids count up from 0 in the order of the queue
OutputFiles(metas) == [k \in 1..Len(metas) |-> [id |-> k - 1, meta |-> metas[k]]]

FileLists ==
    UNION {{OutputFiles(metas) : metas \in [1..n -> MetaChoices]} : n \in 1..MaxFiles}

FileIds == {files[k].id : k \in 1..Len(files)}

\* two clients on the WebSocket transport whose negotiators finished
InitLinked ==
    /\ SrvInit
    /\ transport = "ws"
    /\ args_polite = [p \in Peers |-> FALSE]
    /\ secret = [p \in Peers |-> 0]
    /\ uuid = [p \in Peers |-> UuidSample(p)]
    /\ pc = [p \in Peers |-> "done"]
    /\ rerolls = [p \in Peers |-> 0]
    /\ role = [p \in Peers |-> IF UuidLess(uuid[p], uuid[Other(p)]) THEN "Polite" ELSE "Impolite"]
    /\ sig = [p \in Peers |-> "stable"]
    /\ errq = [p \in Peers |-> <<>>]
    /\ irx = [p \in Peers |-> <<>>]
    /\ rx = [p \in Peers |-> <<>>]
    /\ wire = [p \in Peers |-> <<>>]
    /\ sock = [p \in Peers |-> "closed"]
    /\ task = [p \in Peers |-> "ended"]
    /\ out = [p \in Peers |-> <<>>]
    /\ retain_flag = [p \in Peers |-> TRUE]
    /\ retained = [p \in Peers |-> EmptyText]
    /\ subscribed = [p \in Peers |-> FALSE]
    /\ app = [p \in Peers |-> [AppInit EXCEPT !.handshake_state = "Done"]]
    /\ token = [p \in Peers |-> FALSE]
    /\ pastes = [p \in Peers |-> 0]
    /\ dups = [p \in Peers |-> 0]

\* the two clients at the moment the data channel opens for peer 1, which was
\* started with files; peer 2, started without, went through its empty queue
\* already
InitXferOn(link) ==
    /\ InitLinked
    /\ bus = [p \in Peers |-> IF p = 1 THEN <<ChannelOpened>> ELSE <<>>]
    /\ chunk_size \in {BASE_LENGTH + c : c \in 1..MaxPayload}
    /\ files \in link.lists
    /\ congested = link.congested
    /\ output_queue = [p \in Peers |-> IF p = 1 THEN files ELSE <<>>]
    /\ output_map =
         [p \in Peers |->
            IF p = 1
            THEN [id \in FileIds |-> [progress |-> Zero, finished |-> FALSE]]
            ELSE << >>]
    /\ \E left \in {Absent, StalePart} :
         part = [p \in Peers |-> [id \in FileIds |-> IF p = 2 THEN left ELSE Absent]]
    /\ final = [p \in Peers |-> [id \in FileIds |-> Absent]]
    /\ meta_task = [p \in Peers |-> IF p = 1 THEN NoTask ELSE Ended("done")]
    /\ data_task = [p \in Peers |-> NoTask]
    /\ chan = [p \in Peers |-> <<>>]
    /\ rcvd = [p \in Peers |-> 0]
    /\ metadata_map = [p \in Peers |-> << >>]
    /\ metadata_bytes_map = [p \in Peers |-> << >>]
    /\ handler = [p \in Peers |-> NoHandler]
    /\ calls = [h \in Calls |-> NoCall]
    /\ buffered = [p \in Peers |-> FALSE]
    /\ ever_low = [p \in Peers |-> FALSE]
    /\ event_log = [p \in Peers |-> <<>>]

\* a link that never fills the send buffer
InitXfer == InitXferOn([congested |-> FALSE, lists |-> FileLists])

\* a link on which any send may fill the send buffer, with one file to send
InitXferSlow ==
    InitXferOn([congested |-> TRUE, lists |-> {fs \in FileLists : Len(fs) = 1}])

\* the ids, metadata and payloads of the packets a remote peer may have sent
RecvIds == {0}

RecvMetas == {meta \in MetaChoices : meta.len = 1}

RecvPackets ==
    {Pack(id, TRUE, last, MetaJson(meta)) :
        id \in RecvIds, last \in BOOLEAN, meta \in RecvMetas}
      \cup {Pack(id, FALSE, last, Content(id, 1)) : id \in RecvIds, last \in BOOLEAN}

\* a client started without files whose data channel is open to a remote peer
\* that is not held to the order of send_all_meta and send_file_data: any packets
\* in any order, repeated or not, have arrived from it
InitRecvFrom(frames_from) ==
    /\ InitLinked
    /\ bus = [p \in Peers |-> <<>>]
    /\ chunk_size = BASE_LENGTH + 1
    /\ files = <<>>
    /\ congested = FALSE
    /\ output_queue = [p \in Peers |-> <<>>]
    /\ output_map = [p \in Peers |-> << >>]
    /\ part = [p \in Peers |-> [id \in RecvIds |-> Absent]]
    /\ final = [p \in Peers |-> [id \in RecvIds |-> Absent]]
    /\ meta_task = [p \in Peers |-> Ended("done")]
    /\ data_task = [p \in Peers |-> NoTask]
    /\ \E n \in 1..MaxFrames : \E frames \in [1..n -> frames_from] :
         chan = [p \in Peers |-> IF p = 1 THEN [k \in 1..n |-> Binary(frames[k])] ELSE <<>>]
    /\ rcvd = [p \in Peers |-> 0]
    /\ metadata_map = [p \in Peers |-> << >>]
    /\ metadata_bytes_map = [p \in Peers |-> << >>]
    /\ handler = [p \in Peers |-> NoHandler]
    /\ calls = [h \in Calls |-> NoCall]
    /\ buffered = [p \in Peers |-> FALSE]
    /\ ever_low = [p \in Peers |-> FALSE]
    /\ event_log = [p \in Peers |-> <<>>]

InitRecv == InitRecvFrom(RecvPackets)

\* binary frames that are no Packet: bytes that are no MessagePack (0xc1), a nil
\* (0xc0) in the place of `meta`, and an array without its fourth entry
BadFrames ==
    {<<193>>,
     <<148, 206>> \o BigEndian4(0) \o <<192, 195, 198>> \o BigEndian4(0),
     <<147, 206>> \o BigEndian4(0) \o <<195, 195>>}

\* the same receiver, the remote peer sending frames of any shape
InitRecvBad == InitRecvFrom(RecvPackets \cup BadFrames)

InitWs ==
    /\ transport = "ws"
    /\ args_polite = [p \in Peers |-> FALSE]
    /\ secret = [p \in Peers |-> 0]
    /\ uuid \in [Peers -> ExcludeEdgeCases]
    /\ InitCommon

InitMqtt ==
    /\ transport = "mqtt"
    /\ args_polite = [p \in Peers |-> FALSE]
    /\ secret \in [Peers -> 0..NumKeys]
    /\ uuid \in [Peers -> ExcludeEdgeCases]
    /\ InitCommon

\* two clients started by two users who agreed on the secret
InitManualPair ==
    /\ transport = "manual"
    /\ args_polite \in [Peers -> BOOLEAN]
    /\ \E k \in {0, NumKeys} : secret = [p \in Peers |-> k]
    /\ uuid \in [Peers -> ExcludeEdgeCases]
    /\ InitCommon

\* one client under study; what the remote side does is the user's clipboard
InitManual ==
    /\ transport = "manual"
    /\ \E b \in BOOLEAN : args_polite = [p \in Peers |-> b]
    /\ \E k \in {0, NumKeys} : secret = [p \in Peers |-> k]
    /\ \E u \in ExcludeEdgeCases : uuid = [p \in Peers |-> u]
    /\ InitCommon

HandleSameUuidNever == FALSE

\* negotiate(): handle_same_uuid is false for the manual transport only
HandleSameUuid == transport # "manual"

(***************************************************************************)
(* SignalingInterface::send_message of the three transports.               *)
(***************************************************************************)
\* whether send_message returns Ok: a WebSocket send needs the socket open
CanSend(p) == transport = "ws" => sock[p] = "open"

\* the events send_message puts on the bus: the manual transport surfaces
\* every message but a Uuid as output text
SendEvents(p, m) ==
    IF transport = "manual" /\ m.type # "Uuid"
    THEN <<ManualSignalingOutput(TryEncryptClaims(ToJson(m), secret[p]))>>
    ELSE <<>>

RetainAfterSendKept(flag) == flag

\* SignalingMqtt::send_message: self.retain_flag = false after the send
RetainAfterSend(flag) == FALSE

\* the broker's handling of a publish on p's local topic
Publish(p, text, retain, via) ==
    /\ wire' = IF subscribed[Other(p)]
               THEN [wire EXCEPT ![Other(p)] = Append(@, text)]
               ELSE wire
    /\ retained' = IF retain THEN [retained EXCEPT ![p] = text] ELSE retained
    /\ out' = [out EXCEPT ![p] = Append(@, Sent(text, retain, via))]

Transmit(p, m) ==
    CASE transport = "manual" ->
            /\ out' = IF m.type = "Uuid" THEN out
                      ELSE [out EXCEPT ![p] = Append(@,
                              Sent(TryEncryptClaims(ToJson(m), secret[p]), FALSE, "send_message"))]
            /\ UNCHANGED <<wire, retain_flag, retained>>
      [] transport = "ws" ->
            /\ wire' = [wire EXCEPT ![Other(p)] = Append(@, ToJson(m))]
            /\ out' = [out EXCEPT ![p] = Append(@, Sent(ToJson(m), FALSE, "send_message"))]
            /\ UNCHANGED <<retain_flag, retained>>
      [] transport = "mqtt" ->
            /\ Publish(p, TryEncryptClaims(ToJson(m), secret[p]), retain_flag[p], "send_message")
            /\ retain_flag' = [retain_flag EXCEPT ![p] = RetainAfterSend(@)]

NoTransmit == UNCHANGED <<wire, out, retain_flag, retained>>

Publishes(p, evs) == bus' = [bus EXCEPT ![p] = @ \o evs]

\* an Err out of Negotiator::run reaches the error channel through init's task
Fail(p, err) ==
    /\ pc' = [pc EXCEPT ![p] = "failed"]
    /\ errq' = [errq EXCEPT ![p] = Append(@, err)]

PolitenessUuidSwapped(polite) == IF polite THEN UuidNil ELSE UuidFull

\* SignalingManual::set_politeness: the Uuid that stands for the remote side
PolitenessUuid(polite) == IF polite THEN UuidFull ELSE UuidNil

(***************************************************************************)
(* Negotiator::run up to the receive loop.                                 *)
(***************************************************************************)
\* ConnectingToServer, signaling.connect(), ConnectedToServer
NegConnect(p) ==
    /\ pc[p] = "start"
    /\ pc' = [pc EXCEPT ![p] = "connected"]
    /\ CASE transport = "manual" ->
              /\ irx' = [irx EXCEPT ![p] = Append(@, MsgUuid(PolitenessUuid(args_polite[p])))]
              /\ Publishes(p, <<UpdateHandshakeState("ConnectingToServer"),
                                ManualSignalingInit(args_polite[p]),
                                UpdateHandshakeState("ConnectedToServer")>>)
              /\ UNCHANGED <<task, subscribed, wire>>
         [] transport = "ws" ->
              /\ task' = [task EXCEPT ![p] = "running"]
              /\ Publishes(p, <<UpdateHandshakeState("ConnectingToServer"),
                                UpdateHandshakeState("ConnectedToServer")>>)
              /\ UNCHANGED <<irx, subscribed, wire>>
         [] transport = "mqtt" ->
              /\ subscribed' = [subscribed EXCEPT ![p] = TRUE]
              /\ wire' = IF IsEmpty(retained[Other(p)]) THEN wire
                         ELSE [wire EXCEPT ![p] = Append(@, retained[Other(p)])]
              /\ task' = [task EXCEPT ![p] = "running"]
              /\ Publishes(p, <<UpdateHandshakeState("ConnectingToServer"),
                                UpdateHandshakeState("ConnectedToServer")>>)
              /\ UNCHANGED irx
    /\ UNCHANGED <<cfgVars, extVars, uuid, rerolls, role, sig, errq, rx, sock, out,
                   retain_flag, retained, appVars>>

\* send_message(Uuid(self.uuid)), UUIDSent
NegSendUuid(p) ==
    /\ pc[p] = "connected"
    /\ IF CanSend(p)
       THEN /\ Transmit(p, MsgUuid(uuid[p]))
            /\ Publishes(p, <<UpdateHandshakeState("UUIDSent")>>)
            /\ pc' = [pc EXCEPT ![p] = "loop"]
            /\ UNCHANGED errq
       ELSE /\ NoTransmit
            /\ Fail(p, "SendFailed")
            /\ UNCHANGED bus
    /\ UNCHANGED <<cfgVars, extVars, uuid, rerolls, role, sig, irx, rx, sock, task,
                   subscribed, appVars>>

(***************************************************************************)
(* The handlers of the receive loop.                                       *)
(***************************************************************************)
\* the re-rolled UUID; by the last re-roll the model follows, the two peers'
\* random choices differ
RerollChoices(p) ==
    IF rerolls[p] + 1 < MaxRerolls THEN ExcludeEdgeCases
    ELSE ExcludeEdgeCases \ {uuid[Other(p)]}

PoliteAlways(local, remote) == TRUE

\* let polite: bool = self.uuid < uuid
Polite(local, remote) == UuidLess(local, remote)

HandleUuid(p, u) ==
    IF uuid[p] = u
    THEN IF HandleSameUuid
         THEN /\ rerolls[p] < MaxRerolls
              /\ \E id \in RerollChoices(p) :
                    /\ uuid' = [uuid EXCEPT ![p] = id]
                    /\ rerolls' = [rerolls EXCEPT ![p] = @ + 1]
                    /\ IF CanSend(p)
                       THEN /\ Transmit(p, MsgUuid(id))
                            /\ UNCHANGED <<pc, errq>>
                       ELSE /\ NoTransmit
                            /\ Fail(p, "SendFailed")
              /\ Publishes(p, <<UpdateHandshakeState("UUIDReceived")>>)
              /\ UNCHANGED <<role, sig>>
         ELSE /\ Fail(p, "UuidClash")
              /\ Publishes(p, <<UpdateHandshakeState("UUIDReceived")>>)
              /\ NoTransmit
              /\ UNCHANGED <<uuid, rerolls, role, sig>>
    ELSE IF Polite(uuid[p], u)
         THEN /\ role' = [role EXCEPT ![p] = "polite"]
              /\ Publishes(p, <<UpdateHandshakeState("UUIDReceived")>>)
              /\ NoTransmit
              /\ UNCHANGED <<uuid, rerolls, sig, pc, errq>>
         ELSE /\ role' = [role EXCEPT ![p] = "impolite"]
              /\ sig' = [sig EXCEPT ![p] = "have-local-offer"]
              /\ \/ IF CanSend(p)
                    THEN /\ Transmit(p, MsgOffer(p))
                         /\ Publishes(p, <<UpdateHandshakeState("UUIDReceived")>>
                                          \o SendEvents(p, MsgOffer(p))
                                          \o <<UpdateHandshakeState("OfferSent")>>)
                         /\ UNCHANGED <<pc, errq>>
                    ELSE /\ NoTransmit
                         /\ Publishes(p, <<UpdateHandshakeState("UUIDReceived")>>)
                         /\ Fail(p, "SendFailed")
                 \* a second offer: ICE gathering is complete already, and whether
                 \* wait_for_ice_completion sees another state change is the
                 \* library's choice; without one it never returns
                 \/ /\ sig[p] = "have-local-offer"
                    /\ pc' = [pc EXCEPT ![p] = "blocked"]
                    /\ Publishes(p, <<UpdateHandshakeState("UUIDReceived")>>)
                    /\ NoTransmit
                    /\ UNCHANGED errq
              /\ UNCHANGED <<uuid, rerolls>>

HandleOffer(p, sdp) ==
    /\ IF sig[p] # "stable"
       THEN \* set_remote_description(offer) is refused outside "stable"
            /\ Publishes(p, <<UpdateHandshakeState("OfferReceived")>>)
            /\ Fail(p, "WebRtc")
            /\ NoTransmit
            /\ UNCHANGED sig
       ELSE IF CanSend(p)
            THEN /\ Transmit(p, MsgAnswer(p))
                 /\ Publishes(p, <<UpdateHandshakeState("OfferReceived")>>
                                  \o SendEvents(p, MsgAnswer(p))
                                  \o <<UpdateHandshakeState("AnswerSent")>>)
                 /\ pc' = [pc EXCEPT ![p] = "exchanged"]
                 /\ sig' = [sig EXCEPT ![p] = "stable"]
                 /\ UNCHANGED errq
            ELSE /\ NoTransmit
                 /\ Publishes(p, <<UpdateHandshakeState("OfferReceived")>>)
                 /\ sig' = [sig EXCEPT ![p] = "stable"]
                 /\ Fail(p, "SendFailed")
    /\ UNCHANGED <<uuid, rerolls, role>>

HandleAnswer(p, sdp) ==
    /\ Publishes(p, <<UpdateHandshakeState("AnswerReceived")>>)
    /\ IF sig[p] = "have-local-offer"
       THEN /\ sig' = [sig EXCEPT ![p] = "stable"]
            /\ pc' = [pc EXCEPT ![p] = "exchanged"]
            /\ UNCHANGED errq
       ELSE \* set_remote_description(answer) is refused without a local offer
            /\ Fail(p, "WebRtc")
            /\ UNCHANGED sig
    /\ NoTransmit
    /\ UNCHANGED <<uuid, rerolls, role>>

Dispatch(p, m) ==
    CASE m.type = "Uuid" -> HandleUuid(p, m.uuid)
      [] m.type = "Offer" -> HandleOffer(p, m.sdp)
      [] m.type = "Answer" -> HandleAnswer(p, m.sdp)

\* one turn of the loop: receive_message, then the handler of the message
NegReceive(p) ==
    /\ pc[p] = "loop"
    /\ IF transport = "manual"
       THEN /\ Len(irx[p]) > 0
            /\ irx' = [irx EXCEPT ![p] = Tail(@)]
            /\ Dispatch(p, Head(irx[p]))
            /\ UNCHANGED rx
       ELSE /\ Len(rx[p]) > 0
            /\ rx' = [rx EXCEPT ![p] = Tail(@)]
            /\ IF FromJson(Head(rx[p])).ok
               THEN Dispatch(p, FromJson(Head(rx[p])).msg)
               ELSE /\ NoTransmit
                    /\ UNCHANGED <<negVars, bus, errq>>
            /\ UNCHANGED irx
    /\ UNCHANGED <<cfgVars, extVars, sock, task, subscribed, appVars>>

\* ExchangeFinished, then signaling.disconnect()
NegFinish(p) ==
    /\ pc[p] = "exchanged"
    /\ pc' = [pc EXCEPT ![p] = "done"]
    /\ Publishes(p, <<UpdateHandshakeState("ExchangeFinished")>>)
    /\ CASE transport = "manual" ->
              UNCHANGED <<task, sock, subscribed, wire, out, retained>>
         [] transport = "ws" ->
              /\ task' = [task EXCEPT ![p] = "ended"]
              /\ sock' = [sock EXCEPT ![p] = "closed"]
              /\ UNCHANGED <<subscribed, wire, out, retained>>
         [] transport = "mqtt" ->
              /\ Publish(p, EmptyText, TRUE, "close")
              /\ subscribed' = [subscribed EXCEPT ![p] = FALSE]
              /\ task' = [task EXCEPT ![p] = "ended"]
              /\ UNCHANGED sock
    /\ UNCHANGED <<cfgVars, extVars, uuid, rerolls, role, sig, errq, irx, rx,
                   retain_flag, appVars>>

(***************************************************************************)
(* The receive task of the WebSocket transport.                            *)
(***************************************************************************)
\* SignalingWebsocket::receive_loop around receive: one poll of the stream
WsReceive(p) ==
    /\ transport = "ws"
    /\ task[p] = "running"
    /\ IF Len(wire[p]) > 0
       THEN \* Some(Ok(msg)): the frame's text goes to the tunnel
            /\ rx' = [rx EXCEPT ![p] = Append(@, Head(wire[p]))]
            /\ wire' = [wire EXCEPT ![p] = Tail(@)]
            /\ UNCHANGED <<task, errq>>
       ELSE /\ sock[p] # "open"
            /\ task' = [task EXCEPT ![p] = "ended"]
            /\ errq' = IF sock[p] = "error"
                       THEN [errq EXCEPT ![p] = Append(@, "WebSocketMessageError")]
                       ELSE errq
            /\ UNCHANGED <<rx, wire>>
    /\ UNCHANGED <<cfgVars, extVars, negVars, appVars, bus, irx, sock, out, retain_flag,
                   retained, subscribed>>

\* the server closes the connection: a Close frame, then the end of the stream
ServerClose(p) ==
    /\ transport = "ws"
    /\ sock[p] = "open"
    /\ pc[p] \in {"connected", "loop"}
    /\ sock' = [sock EXCEPT ![p] = "closed"]
    /\ wire' = [wire EXCEPT ![p] = Append(@, EmptyText)]
    /\ UNCHANGED <<cfgVars, extVars, negVars, appVars, bus, errq, irx, rx, task, out,
                   retain_flag, retained, subscribed>>

\* the connection breaks: the stream reports an error
StreamError(p) ==
    /\ transport = "ws"
    /\ sock[p] = "open"
    /\ pc[p] \in {"connected", "loop"}
    /\ sock' = [sock EXCEPT ![p] = "error"]
    /\ UNCHANGED <<cfgVars, extVars, negVars, appVars, bus, errq, irx, rx, wire, task, out,
                   retain_flag, retained, subscribed>>

(***************************************************************************)
(* The receive task of the MQTT transport.                                 *)
(***************************************************************************)
\* SignalingMqtt::receive_loop around receive: one Incoming::Publish
MqttReceive(p) ==
    /\ transport = "mqtt"
    /\ task[p] = "running"
    /\ Len(wire[p]) > 0
    /\ wire' = [wire EXCEPT ![p] = Tail(@)]
    /\ IF IsEmpty(Head(wire[p]))
       THEN UNCHANGED <<rx, task, errq>>
       ELSE IF TryDecryptClaims(Head(wire[p]), secret[p]).ok
            THEN /\ rx' = [rx EXCEPT ![p] =
                             Append(@, TryDecryptClaims(Head(wire[p]), secret[p]).text)]
                 /\ UNCHANGED <<task, errq>>
            ELSE /\ errq' = [errq EXCEPT ![p] = Append(@, "DecryptFailed")]
                 /\ task' = [task EXCEPT ![p] = "ended"]
                 /\ UNCHANGED rx
    /\ UNCHANGED <<cfgVars, extVars, negVars, appVars, bus, irx, sock, out, retain_flag,
                   retained, subscribed>>

\* the broker hands the retained publish of the remote topic to a subscriber
\* that already got it: the retained copy sent on subscribe and the routed
\* copy of the same publish both arrive
MqttRedeliver(p) ==
    /\ transport = "mqtt"
    /\ subscribed[p]
    /\ dups[p] < MaxDups
    /\ ~IsEmpty(retained[Other(p)])
    /\ \E i \in 1..Len(out[Other(p)]) : out[Other(p)][i].text = retained[Other(p)]
    /\ wire' = [wire EXCEPT ![p] = Append(@, retained[Other(p)])]
    /\ dups' = [dups EXCEPT ![p] = @ + 1]
    /\ UNCHANGED <<cfgVars, xferVars, srvVars, negVars, appVars, bus, errq, irx, rx, sock,
                   task, out, retain_flag, retained, subscribed>>

(***************************************************************************)
(* The application main loop of a client on the manual transport.          *)
(***************************************************************************)
SendFlagAny(polite, msg) == msg.type \in {"Offer", "Answer"}

\* on_manual_signaling_input: a polite peer takes an Offer, an impolite peer
\* an Answer
SendFlag(polite, msg) ==
    IF polite THEN msg.type = "Offer" ELSE msg.type = "Answer"

\* the output texts the clients show, which the user can copy
PeerTexts ==
    {app[q].output_text : q \in {r \in Peers : ~IsEmpty(app[r].output_text)}}

\* what the user can hold on the clipboard: a client's output text, or text of
\* another origin (any message of a remote side, junk), plain or under any key
ClipboardTexts(p) ==
    PeerTexts \cup
    {TryEncryptClaims(t, k) :
        t \in {ToJson(MsgUuid(UuidFull)), ToJson(MsgOffer(Other(p))),
               ToJson(MsgAnswer(Other(p))), JunkText},
        k \in 0..NumKeys}

OnManualSignalingInput(p, text) ==
    IF transport = "manual" /\ IsEmpty(app[p].input_text)
    THEN IF ~TryDecryptClaims(text, secret[p]).ok
         THEN \* the Err of `?` leaves process_event: main_loop records it
              /\ app' = [app EXCEPT ![p].error = "IncorrectManualHandshake",
                                    ![p].exit = TRUE]
              /\ UNCHANGED irx
         ELSE IF /\ FromJson(TryDecryptClaims(text, secret[p]).text).ok
                 /\ SendFlag(args_polite[p],
                             FromJson(TryDecryptClaims(text, secret[p]).text).msg)
              THEN /\ app' = [app EXCEPT ![p].input_text =
                                 TryDecryptClaims(text, secret[p]).text]
                   /\ irx' = [irx EXCEPT ![p] = Append(@,
                                 FromJson(TryDecryptClaims(text, secret[p]).text).msg)]
              ELSE UNCHANGED <<app, irx>>
    ELSE UNCHANGED <<app, irx>>

\* main_loop: the ManualSignalingInput(clipboard text) that a 'v' key on the
\* handshake widget queued, through process_event. The event's wait in the
\* queue is not modelled: no other event's handler writes what this one reads.
KeyPaste(p, text) ==
    /\ ~app[p].exit
    /\ pastes[p] < MaxPastes
    /\ pastes' = [pastes EXCEPT ![p] = @ + 1]
    /\ OnManualSignalingInput(p, text)
    /\ UNCHANGED <<cfgVars, extVars, negVars, netVars, token, errq, bus>>

\* main_loop: one event of the core from the bus through process_event
ProcessEvent(p) ==
    /\ ~app[p].exit
    /\ Len(bus[p]) > 0
    /\ bus' = [bus EXCEPT ![p] = Tail(@)]
    /\ LET e == Head(bus[p]) IN
         CASE e.ev = "UpdateHandshakeState" ->
                 /\ app' = [app EXCEPT ![p].handshake_state = e.state]
                 /\ UNCHANGED irx
           [] e.ev = "ManualSignalingInit" ->
                 /\ app' = [app EXCEPT ![p].polite = IF e.flag THEN "true" ELSE "false"]
                 /\ UNCHANGED irx
           [] e.ev = "ManualSignalingOutput" ->
                 /\ app' = [app EXCEPT ![p].output_text = e.text]
                 /\ UNCHANGED irx
    /\ UNCHANGED <<cfgVars, extVars, negVars, netVars, token, pastes, errq>>

\* the error is recorded and the loop goes on
CatchErrorKeepsRunning(p) ==
    /\ ~app[p].exit
    /\ Len(errq[p]) > 0
    /\ errq' = [errq EXCEPT ![p] = Tail(@)]
    /\ app' = [app EXCEPT ![p].error = Head(errq[p])]
    /\ UNCHANGED <<cfgVars, extVars, negVars, netVars, token, pastes, bus, irx>>

\* main_loop: the error catcher
CatchError(p) ==
    /\ ~app[p].exit
    /\ Len(errq[p]) > 0
    /\ errq' = [errq EXCEPT ![p] = Tail(@)]
    /\ app' = [app EXCEPT ![p].error = Head(errq[p]), ![p].exit = TRUE]
    /\ UNCHANGED <<cfgVars, extVars, negVars, netVars, token, pastes, bus, irx>>

\* App::run after main_loop: cancellation_token.cancel() ends the tasks
AppCancel(p) ==
    /\ app[p].exit
    /\ ~token[p]
    /\ token' = [token EXCEPT ![p] = TRUE]
    /\ pc' = [pc EXCEPT ![p] =
                IF @ \in {"start", "connected", "loop", "exchanged"} THEN "cancelled" ELSE @]
    /\ task' = [task EXCEPT ![p] = IF @ = "running" THEN "ended" ELSE @]
    /\ UNCHANGED <<cfgVars, extVars, uuid, rerolls, role, sig, rx, wire, sock, out,
                   retain_flag, retained, subscribed, app, pastes, bus, errq, irx>>

\* error_loop: an event that is no release of 'q' is taken and dropped
ErrorLoopEvent(p) ==
    /\ token[p]
    /\ app[p].error # ""
    /\ app[p].result = "Running"
    /\ Len(bus[p]) > 0
    /\ bus' = [bus EXCEPT ![p] = Tail(@)]
    /\ UNCHANGED <<cfgVars, extVars, negVars, netVars, appVars, errq, irx>>

\* error_loop: the release of 'q' leaves the loop, and run returns Err(error)
ErrorLoopQuit(p) ==
    /\ token[p]
    /\ app[p].error # ""
    /\ app[p].result = "Running"
    /\ app' = [app EXCEPT ![p].result = "Err"]
    /\ UNCHANGED <<cfgVars, extVars, negVars, netVars, token, pastes, bus, errq, irx>>

\* App::run with no error recorded: error_loop returns at once, and run Ok(())
RunReturnsOk(p) ==
    /\ token[p]
    /\ app[p].error = ""
    /\ app[p].result = "Running"
    /\ app' = [app EXCEPT ![p].result = "Ok"]
    /\ UNCHANGED <<cfgVars, extVars, negVars, netVars, token, pastes, bus, errq, irx>>

(***************************************************************************)
(* The data channel: await_threshold, send, on_buffered_amount_low.        *)
(* A watch::Receiver is [unseen, waiting]: unseen tells that the sender    *)
(* signalled since the receiver last looked, waiting that its owner found  *)
(* the buffered amount above the threshold and is at or inside changed():  *)
(* changed() returns at once when something is unseen, so a signal that    *)
(* comes before the call and one that comes during it have the same end.   *)
(***************************************************************************)
\* what no action of the transfer writes
recvFixed == <<hsVars, srvVars, pastes, chunk_size, files, congested>>

xferFixed == <<recvFixed, calls>>

\* the bus and the record of what was sent on it
busLog == <<bus, event_log>>

\* event_tx.send_event of the sending tasks
Emits(p, evs) ==
    /\ Publishes(p, evs)
    /\ event_log' = [event_log EXCEPT ![p] = @ \o evs]

\* await_threshold: the buffer is above the threshold and nothing is unseen
MustWait(p, r) == ~r.waiting /\ buffered[p] /\ ~r.unseen

\* await_threshold returns: the buffer is low, or changed() has something unseen
CanProceed(p, r) == IF r.waiting THEN r.unseen ELSE ~buffered[p] \/ r.unseen

\* the receiver when await_threshold returned: changed() marks the value seen
AfterThreshold(p, r) ==
    [r EXCEPT !.waiting = FALSE,
              !.unseen = IF r.waiting \/ buffered[p] THEN FALSE ELSE @]

Blocked(r) == [r EXCEPT !.waiting = TRUE]

\* RTCDataChannel::send, send_text: the frame is queued, and on a slow link the
\* buffered amount may pass the threshold
DcSend(p, frame) ==
    /\ chan' = [chan EXCEPT ![p] = Append(@, frame)]
    /\ \E b \in (IF congested THEN {TRUE} ELSE {}) \cup {buffered[p]} :
         buffered' = [buffered EXCEPT ![p] = b]

\* the buffered amount fell to the threshold and no receiver is told
DrainUnsignalled(p) ==
    /\ ~token[p]
    /\ buffered[p]
    /\ buffered' = [buffered EXCEPT ![p] = FALSE]
    /\ ever_low' = [ever_low EXCEPT ![p] = TRUE]
    /\ UNCHANGED <<xferFixed, app, token, busLog, errq, output_queue, output_map, chan,
                   rcvd, metadata_map, metadata_bytes_map, part, final, meta_task,
                   data_task, handler>>

\* attach_buffer_handler: the buffered amount fell to the threshold, and
\* buffer_watch_tx.send(true) marks the value unseen for every live receiver
Drain(p) ==
    /\ ~token[p]
    /\ buffered[p]
    /\ buffered' = [buffered EXCEPT ![p] = FALSE]
    /\ ever_low' = [ever_low EXCEPT ![p] = TRUE]
    /\ meta_task' = [meta_task EXCEPT ![p].unseen = @ \/ meta_task[p].st = "run"]
    /\ data_task' = [data_task EXCEPT ![p].unseen = @ \/ data_task[p].st = "run"]
    /\ handler' = [handler EXCEPT ![p].unseen = @ \/ handler[p].todo # <<>>]
    /\ UNCHANGED <<xferFixed, app, token, busLog, errq, output_queue, output_map, chan,
                   rcvd, metadata_map, metadata_bytes_map, part, final>>

(***************************************************************************)
(* The sender: payload::send_all_meta and payload::send_file_data.         *)
(***************************************************************************)
\* a task spawned by send_all_meta or send_file_data, with a fresh subscribe()
Spawn(fs) ==
    [st |-> "run", files |-> fs, i |-> 1, counter |-> 0,
     unseen |-> FALSE, waiting |-> FALSE]

AllMetaSentAfterFirst(t) == t.i > Min(1, Len(t.files))

\* send_all_meta: the loop over the files is through
AllMetaSent(t) == t.i > Len(t.files)

\* one turn of the loop of send_meta_string, and what send_all_meta does when
\* the loop of a file breaks
MetaSend(p) ==
    LET t == meta_task[p]
        f == t.files[t.i]
        m == MetaChunk(MetaJson(f.meta), t.counter, BufferSize(chunk_size))
        done == m.new_counter >= f.meta.len
    IN  /\ ~token[p]
        /\ t.st = "run"
        /\ ~AllMetaSent(t)
        /\ IF m.panic
           THEN /\ meta_task' = [meta_task EXCEPT ![p] = Ended("panicked")]
                /\ UNCHANGED <<chan, buffered, busLog>>
           ELSE IF MustWait(p, t)
           THEN /\ meta_task' = [meta_task EXCEPT ![p] = Blocked(t)]
                /\ UNCHANGED <<chan, buffered, busLog>>
           ELSE /\ CanProceed(p, t)
                /\ DcSend(p, Binary(Pack(f.id, TRUE, m.last, m.chunk)))
                /\ meta_task' =
                     [meta_task EXCEPT ![p] =
                        [AfterThreshold(p, t) EXCEPT
                            !.i = IF done THEN @ + 1 ELSE @,
                            !.counter = IF done THEN 0 ELSE m.new_counter]]
                /\ Emits(p, IF done /\ f.meta.size = 0
                                THEN <<OutputFileProgress(f.id, One)>>
                                ELSE <<>>)
        /\ UNCHANGED <<xferFixed, app, token, errq, output_queue, output_map, data_task,
                       rcvd, metadata_map, metadata_bytes_map, part, final, handler,
                       ever_low>>

\* send_all_meta after the last file
MetaFinish(p) ==
    /\ ~token[p]
    /\ meta_task[p].st = "run"
    /\ AllMetaSent(meta_task[p])
    /\ meta_task' = [meta_task EXCEPT ![p] = Ended("done")]
    /\ Emits(p, <<MetaSent>>)
    /\ UNCHANGED <<xferFixed, app, token, errq, output_queue, output_map, data_task,
                   chan, rcvd, metadata_map, metadata_bytes_map, part, final, handler,
                   buffered, ever_low>>

IsLastAlways(counter, file_size) == TRUE

\* send_data: counter >= file_size
IsLast(counter, file_size) == counter >= file_size

\* file.read(&mut buf): any number of bytes from 1 up to the buffer or what is left
ReadSizes(buffer_size, left) == 1..Min(buffer_size, left)

\* one turn of the loop of send_data that read n > 0 bytes
DataSend(p) ==
    LET t == data_task[p]
        f == t.files[1]
    IN  /\ ~token[p]
        /\ t.st = "run"
        /\ t.counter < f.meta.size
        /\ IF MustWait(p, t)
           THEN /\ data_task' = [data_task EXCEPT ![p] = Blocked(t)]
                /\ UNCHANGED <<chan, buffered, busLog>>
           ELSE /\ CanProceed(p, t)
                /\ \E n \in ReadSizes(BufferSize(chunk_size), f.meta.size - t.counter) :
                     LET counter == t.counter + n
                         chunk == SubSeq(Content(f.id, f.meta.size), t.counter + 1, counter)
                     IN  /\ DcSend(p, Binary(Pack(f.id, FALSE, IsLast(counter, f.meta.size), chunk)))
                         /\ data_task' =
                              [data_task EXCEPT ![p] =
                                 [AfterThreshold(p, t) EXCEPT !.counter = counter]]
                         /\ Emits(p, <<OutputFileProgress(
                                              f.id, Clamp(counter, f.meta.size))>>)
        /\ UNCHANGED <<xferFixed, app, token, errq, output_queue, output_map, meta_task,
                       rcvd, metadata_map, metadata_bytes_map, part, final, handler,
                       ever_low>>

\* send_data at the end of the file, and the rest of send_file_data
DataFinish(p) ==
    LET t == data_task[p]
        f == t.files[1]
    IN  /\ ~token[p]
        /\ t.st = "run"
        /\ t.counter >= f.meta.size
        /\ data_task' = [data_task EXCEPT ![p] = Ended("done")]
        /\ Emits(p, <<OutputFileProgress(f.id, One), OutputFileFinished>>)
        /\ UNCHANGED <<xferFixed, app, token, errq, output_queue, output_map, meta_task,
                       chan, rcvd, metadata_map, metadata_bytes_map, part, final,
                       handler, buffered, ever_low>>

(***************************************************************************)
(* The main loop of a client during the transfer.                          *)
(***************************************************************************)
NoFile == [id |-> 0, meta |-> MetaData(FALSE, 0, 0)]

NextFileHead(queue) ==
    IF queue = <<>>
    THEN [found |-> FALSE, file |-> NoFile, rest |-> <<>>]
    ELSE [found |-> TRUE, file |-> Head(queue), rest |-> Tail(queue)]

RECURSIVE NextFile(_)
\* the loop of send_next_file: pop until a file that is no directory and not empty
NextFile(queue) ==
    IF queue = <<>>
    THEN [found |-> FALSE, file |-> NoFile, rest |-> <<>>]
    ELSE IF ~Head(queue).meta.is_dir /\ Head(queue).meta.size > 0
         THEN [found |-> TRUE, file |-> Head(queue), rest |-> Tail(queue)]
         ELSE NextFile(Tail(queue))

\* send_next_file, send_file_data of client_handler
SendNextFile(p) ==
    LET next == NextFile(output_queue[p])
    IN  /\ output_queue' = [output_queue EXCEPT ![p] = next.rest]
        /\ data_task' = IF next.found
                        THEN [data_task EXCEPT ![p] = Spawn(<<next.file>>)]
                        ELSE data_task

\* handle_app_events for the events of the transfer
XferProcessEvent(p) ==
    /\ ~app[p].exit
    /\ Len(bus[p]) > 0
    /\ bus' = [bus EXCEPT ![p] = Tail(@)]
    /\ UNCHANGED event_log
    /\ LET e == Head(bus[p]) IN
         CASE e.ev = "ChannelOpened" ->
                 /\ meta_task' = [meta_task EXCEPT ![p] = Spawn(output_queue[p])]
                 /\ UNCHANGED <<output_queue, output_map, data_task>>
           [] e.ev \in {"MetaSent", "OutputFileFinished"} ->
                 /\ SendNextFile(p)
                 /\ UNCHANGED <<output_map, meta_task>>
           [] e.ev = "OutputFileProgress" ->
                 /\ output_map' =
                      IF e.id \in DOMAIN output_map[p]
                      THEN [output_map EXCEPT ![p][e.id].progress = e.progress]
                      ELSE output_map
                 /\ UNCHANGED <<output_queue, meta_task, data_task>>
           [] e.ev = "MessageReceived" ->
                 /\ output_map' =
                      IF e.msg.type = "FileReceived" /\ e.msg.id \in DOMAIN output_map[p]
                      THEN [output_map EXCEPT ![p][e.msg.id].finished = TRUE]
                      ELSE output_map
                 /\ UNCHANGED <<output_queue, meta_task, data_task>>
    /\ UNCHANGED <<xferFixed, app, token, errq, chan, rcvd, metadata_map,
                   metadata_bytes_map, part, final, handler, buffered, ever_low>>

\* handle_key_events: 'q' is Quit, and on_quit sets app.exit
KeyQuit(p) ==
    /\ ~app[p].exit
    /\ app' = [app EXCEPT ![p].exit = TRUE]
    /\ UNCHANGED <<cfgVars, extVars, negVars, netVars, token, pastes, bus, errq, irx>>

(***************************************************************************)
(* The receiver: on_message and handle_message.  What a call has left to   *)
(* do after its first send is a list of steps: a send or the rename.       *)
(* InputFileNew and InputFileProgress feed the input_map of the receiver's *)
(* own display: they are recorded in event_log, and their way over the bus *)
(* into input_map is not followed; neither is ReportFileSpeed.             *)
(***************************************************************************)
DoSend(m) == [op |-> "send", msg |-> m, id |-> m.id]

DoRename(id) == [op |-> "rename", msg |-> FileReceived(id), id |-> id]

\* the call with these steps left, on a clone of the receiver on_message holds
Call(p, todo) ==
    IF todo = <<>>
    THEN NoHandler
    ELSE [todo |-> todo, unseen |-> ever_low[p], waiting |-> FALSE]

\* a text message
HandleText(p, text) ==
    /\ Publishes(p, <<MessageReceived(MessageFromJson(text))>>)
    /\ UNCHANGED <<event_log, errq, metadata_map, metadata_bytes_map, part, final, handler>>

\* send_event of handle_message for the receiver's display
Records(p, evs) ==
    /\ event_log' = [event_log EXCEPT ![p] = @ \o evs]
    /\ UNCHANGED bus

CompletesAtMetaDirOnly(value) == value.is_dir

\* handle_message: a directory or a file of size 0 is complete with its metadata
CompletesAtMeta(value) == value.is_dir \/ value.size = 0

\* a packet with meta set
HandleMeta(p, packet) ==
    LET old == metadata_bytes_map[p]
        bytes_map ==
            IF packet.id \in DOMAIN metadata_map[p]
            THEN old
            ELSE (packet.id :> ((IF packet.id \in DOMAIN old THEN old[packet.id] ELSE <<>>)
                                   \o packet.binary)) @@ old
        parsed == MetaFromJson(bytes_map[packet.id])
        value == parsed.meta
    IN  /\ metadata_bytes_map' = [metadata_bytes_map EXCEPT ![p] = bytes_map]
        /\ IF ~packet.last \/ packet.id \notin DOMAIN bytes_map
           THEN UNCHANGED <<busLog, errq, metadata_map, final, handler>>
           ELSE IF ~parsed.ok
           THEN /\ errq' = [errq EXCEPT ![p] = Append(@, "serde_json")]
                /\ UNCHANGED <<busLog, metadata_map, final, handler>>
           ELSE /\ metadata_map' =
                     [metadata_map EXCEPT ![p] =
                        (packet.id :> [meta |-> value, progress_bytes |-> 0]) @@ @]
                /\ final' =
                     IF CompletesAtMeta(value) /\ ~final[p][packet.id].exists
                     THEN [final EXCEPT ![p][packet.id] = OnDisk(<<>>)]
                     ELSE final
                /\ Records(p,
                     IF value.is_dir THEN <<>>
                     ELSE IF value.size > 0 THEN <<InputFileNew(packet.id)>>
                     ELSE <<InputFileNew(packet.id), InputFileProgress(packet.id, One)>>)
                /\ handler' =
                     [handler EXCEPT ![p] =
                        Call(p, IF CompletesAtMeta(value)
                                THEN <<DoSend(FileReceived(packet.id))>>
                                ELSE <<>>)]
                /\ UNCHANGED errq
        /\ UNCHANGED part

RenamesOnAny(packet) == TRUE

\* remove_part_ext is called under `if packet.last`
RenamesOn(packet) == packet.last

\* a packet with meta not set
HandleData(p, packet) ==
    LET found == packet.id \in DOMAIN metadata_map[p]
        n == Len(packet.binary)
        tail == (IF found /\ RenamesOn(packet) THEN <<DoRename(packet.id)>> ELSE <<>>)
                    \o (IF packet.last THEN <<DoSend(FileReceived(packet.id))>> ELSE <<>>)
    IN  IF found
        THEN LET metadata == metadata_map[p][packet.id]
                 progress_bytes == metadata.progress_bytes + n
             IN  /\ metadata_map' =
                      [metadata_map EXCEPT ![p][packet.id].progress_bytes = progress_bytes]
                 /\ part' = [part EXCEPT ![p][packet.id] = OnDisk(@.bytes \o packet.binary)]
                 /\ Records(p, <<InputFileProgress(packet.id,
                                                   <<progress_bytes, metadata.meta.size>>)>>)
                 /\ handler' =
                      [handler EXCEPT ![p] =
                         Call(p, <<DoSend(FilePacketReceived(packet.id, n))>> \o tail)]
                 /\ UNCHANGED <<errq, metadata_bytes_map, final>>
        ELSE /\ handler' = [handler EXCEPT ![p] = Call(p, tail)]
             /\ UNCHANGED <<busLog, errq, metadata_map, metadata_bytes_map, part, final>>

\* on_message: handle_message up to its first send, for the next message
OnMessage(p) ==
    LET msg == chan[Other(p)][rcvd[p] + 1]
        packet == Unpack(msg.data)
    IN  /\ ~token[p]
        /\ handler[p].todo = <<>>
        /\ rcvd[p] < Len(chan[Other(p)])
        /\ rcvd' = [rcvd EXCEPT ![p] = @ + 1]
        /\ IF msg.is_string
           THEN HandleText(p, msg.data)
           ELSE IF Panics(msg.data)
           THEN /\ \E dead \in BOOLEAN :
                     handler' = [handler EXCEPT ![p] = IF dead THEN Panicked ELSE NoHandler]
                /\ UNCHANGED <<busLog, errq, metadata_map, metadata_bytes_map, part, final>>
           ELSE IF ~packet.ok
           THEN /\ errq' = [errq EXCEPT ![p] = Append(@, "unpack")]
                /\ UNCHANGED <<busLog, metadata_map, metadata_bytes_map, part, final, handler>>
           ELSE IF packet.meta
           THEN HandleMeta(p, packet)
           ELSE HandleData(p, packet)
        /\ UNCHANGED <<xferFixed, app, token, output_queue, output_map, meta_task,
                       data_task, chan, buffered, ever_low>>

\* handle_message from a send on: send_message, or remove_part_ext
HandlerStep(p) ==
    LET h == handler[p]
        step == Head(h.todo)
        rest == [h EXCEPT !.todo = Tail(@)]
        after == IF rest.todo = <<>> THEN NoHandler ELSE rest
    IN  /\ ~token[p]
        /\ h.todo # <<>>
        /\ step.op # "panic"
        /\ IF step.op = "rename"
           THEN /\ IF part[p][step.id].exists
                   THEN /\ final' = [final EXCEPT ![p][step.id] = part[p][step.id]]
                        /\ part' = [part EXCEPT ![p][step.id] = Absent]
                        /\ handler' = [handler EXCEPT ![p] = after]
                        /\ UNCHANGED errq
                   ELSE /\ errq' = [errq EXCEPT ![p] = Append(@, "rename")]
                        /\ handler' = [handler EXCEPT ![p] = NoHandler]
                        /\ UNCHANGED <<part, final>>
                /\ UNCHANGED <<chan, buffered>>
           ELSE IF MustWait(p, h)
           THEN /\ handler' = [handler EXCEPT ![p] = Blocked(h)]
                /\ UNCHANGED <<chan, buffered, errq, part, final>>
           ELSE /\ CanProceed(p, h)
                /\ DcSend(p, Text(step.msg))
                /\ handler' =
                     [handler EXCEPT ![p] =
                        IF rest.todo = <<>> THEN NoHandler ELSE AfterThreshold(p, rest)]
                /\ UNCHANGED <<errq, part, final>>
        /\ UNCHANGED <<xferFixed, app, token, busLog, output_queue, output_map, meta_task,
                       data_task, rcvd, metadata_map, metadata_bytes_map, ever_low>>

(***************************************************************************)
(* Specifications.                                                         *)
(***************************************************************************)
NegStep(p) == NegConnect(p) \/ NegSendUuid(p) \/ NegReceive(p) \/ NegFinish(p)

\* two peers on the WebSocket transport, every frame relayed once, in order
NextWs == \E p \in Peers : NegStep(p) \/ WsReceive(p)

SpecWs ==
    /\ InitWs
    /\ [][NextWs]_vars
    /\ \A p \in Peers : WF_vars(NegStep(p)) /\ WF_vars(WsReceive(p))

\* the same, with a server that may close a connection and streams that fail
NextWsClose == \E p \in Peers : NegStep(p) \/ WsReceive(p) \/ ServerClose(p) \/ StreamError(p)

SpecWsClose == InitWs /\ [][NextWsClose]_vars

\* two peers on the MQTT transport
NextMqtt == \E p \in Peers : NegStep(p) \/ MqttReceive(p)

SpecMqtt == InitMqtt /\ [][NextMqtt]_vars

\* the same, under a broker that may deliver a retained publish twice
NextMqttDup == \E p \in Peers : NegStep(p) \/ MqttReceive(p) \/ MqttRedeliver(p)

SpecMqttDup == InitMqtt /\ [][NextMqttDup]_vars

StudiedPeers == {1}

\* one client on the manual transport, the user pasting any text
NextManual ==
    \E p \in StudiedPeers :
        \/ NegStep(p)
        \/ \E text \in ClipboardTexts(p) : KeyPaste(p, text)
        \/ ProcessEvent(p)
        \/ CatchError(p)
        \/ AppCancel(p)

SpecManual == InitManual /\ [][NextManual]_vars

\* two clients on the manual transport, the users carrying each other's output
NextManualPair ==
    \E p \in Peers :
        \/ NegStep(p)
        \/ \E text \in PeerTexts : KeyPaste(p, text)
        \/ ProcessEvent(p)

SpecManualPair == InitManualPair /\ [][NextManualPair]_vars

(***************************************************************************)
(* Properties.                                                             *)
(***************************************************************************)
\* the handshake states published on p's bus, in order
HsLog(p) ==
    LET evs == SelectSeq(bus[p], LAMBDA e : e.ev = "UpdateHandshakeState")
    IN [i \in 1..Len(evs) |-> evs[i].state]

Count(log, x) == Cardinality({i \in 1..Len(log) : log[i] = x})

InOrder(log, a, b, c) ==
    \E i, j, k \in 1..Len(log) : i < j /\ j < k /\ log[i] = a /\ log[j] = b /\ log[k] = c

\* the number of Offers p put on its transport
OfferCount(p) ==
    Cardinality({i \in 1..Len(out[p]) : out[p][i].text.type = "Offer"})

\* C1: of two peers that exchanged distinct UUIDs, the one with the greater
\* UUID in byte order is impolite and has sent exactly one Offer, the other is
\* polite and has sent none; never have both sent an Offer and never have both
\* decided to wait.
C1_RoleSelection ==
    /\ ~(\A p \in Peers : OfferCount(p) >= 1)
    /\ ~(\A p \in Peers : role[p] = "polite")
    /\ \A p \in Peers :
          /\ role[p] = "impolite" =>
                UuidLess(uuid[Other(p)], uuid[p]) /\ OfferCount(p) = 1
          /\ role[p] = "polite" =>
                UuidLess(uuid[p], uuid[Other(p)]) /\ OfferCount(p) = 0
          /\ role[p] = "None" => OfferCount(p) = 0

C1_Witness ==
    \E p \in Peers :
        /\ role[p] = "impolite" /\ OfferCount(p) = 1
        /\ role[Other(p)] = "polite"

ViaOffer(p) ==
    /\ pc[p] = "done"
    /\ InOrder(HsLog(p), "OfferSent", "AnswerReceived", "ExchangeFinished")

ViaAnswer(p) ==
    /\ pc[p] = "done"
    /\ InOrder(HsLog(p), "OfferReceived", "AnswerSent", "ExchangeFinished")

\* C2: over a transport that delivers every message once and in order, both
\* negotiators eventually leave the loop and publish ExchangeFinished, one
\* through OfferSent and AnswerReceived, the other through OfferReceived and
\* AnswerSent.
C2_BothFinish == <>(\E p \in Peers : ViaOffer(p) /\ ViaAnswer(Other(p)))

C2_Witness == \E p \in Peers : ViaOffer(p) /\ ViaAnswer(Other(p))

\* the step in which p's loop takes a Uuid equal to its own from the tunnel
TakesOwnUuid(p) ==
    /\ pc[p] = "loop"
    /\ Len(rx[p]) > 0
    /\ Len(rx'[p]) = Len(rx[p]) - 1
    /\ Head(rx[p]) = ToJson(MsgUuid(uuid[p]))

\* C3: on a server-backed transport a received Uuid equal to the local one
\* does not fail the run: the local UUID becomes a fresh one that is neither
\* nil nor all-Fs, the new Uuid is sent, the negotiator stays in the loop, and
\* any role it has selected compares the UUID it holds now.
C3_Reroll ==
    [][\A p \in Peers :
          /\ TakesOwnUuid(p) =>
                /\ uuid'[p] \notin {UuidNil, UuidFull}
                /\ wire'[Other(p)] = Append(wire[Other(p)], ToJson(MsgUuid(uuid'[p])))
                /\ pc'[p] = "loop"
                /\ errq'[p] = errq[p]
          /\ (rerolls'[p] > 0 /\ role'[p] = "polite") =>
                UuidLess(uuid'[p], uuid'[Other(p)])
          /\ (rerolls'[p] > 0 /\ role'[p] = "impolite") =>
                UuidLess(uuid'[Other(p)], uuid'[p])]_vars

C3_Witness == \E p \in Peers : rerolls[p] > 0 /\ role[p] # "None"

\* C4: after one tie and one re-roll on the WebSocket transport, exactly two
\* UUIDSent transitions are recorded on the bus.
C4_TwoUuidSent ==
    \A p \in Peers :
        (rerolls[p] = 1 /\ role[p] # "None") => Count(HsLog(p), "UUIDSent") = 2

\* connect has run: a handshake state was published
Connected(p) ==
    app[p].handshake_state # "Initial" \/ Len(HsLog(p)) > 0

\* the negotiator has taken the synthetic Uuid of the manual transport, the
\* only Uuid its receive queue ever holds
HandledUuid(p) ==
    /\ Connected(p)
    /\ \A i \in 1..Len(irx[p]) : irx[p][i].type # "Uuid"

\* C5 as stated: when both manual peers declare polite, each negotiator finds
\* the received Uuid equal to its own and its run ends with UuidClash.
C5_ClashWhenBothPolite ==
    (\A q \in Peers : args_polite[q]) =>
        \A p \in Peers :
            HandledUuid(p) => (pc[p] = "failed" /\ Len(errq[p]) > 0)

\* C5 amended: when both manual peers declare polite, each negotiator takes
\* the all-Fs Uuid, which differs from its local UUID; no run ends with
\* UuidClash; each computes polite, puts out nothing and waits in the loop.
C5_BothPoliteWait ==
    (\A q \in Peers : args_polite[q]) =>
        \A p \in Peers :
            /\ uuid[p] # UuidFull
            /\ pc[p] # "failed"
            /\ Len(errq[p]) = 0
            /\ Len(out[p]) = 0
            /\ HandledUuid(p) => (role[p] = "polite" /\ pc[p] = "loop")

C5_Witness ==
    /\ \A q \in Peers : args_polite[q]
    /\ \A p \in Peers : HandledUuid(p) /\ role[p] = "polite" /\ pc[p] = "loop"

\* C6: on the manual transport the declared role is the computed role: a peer
\* declared polite computes polite on the synthetic Uuid and never puts out an
\* Offer; a peer declared impolite computes impolite and puts out exactly one
\* Offer.
C6_DeclaredIsComputed ==
    \A p \in StudiedPeers :
        /\ uuid[p] \notin {UuidNil, UuidFull}
        /\ args_polite[p] => OfferCount(p) = 0
        /\ ~HandledUuid(p) => (role[p] = "None" /\ OfferCount(p) = 0)
        /\ HandledUuid(p) =>
              IF args_polite[p]
              THEN role[p] = "polite"
              ELSE role[p] = "impolite" /\ OfferCount(p) = 1

C6_Witness ==
    \E p \in StudiedPeers : ~args_polite[p] /\ HandledUuid(p) /\ OfferCount(p) = 1

\* C7: a pasted text reaches the negotiator's receive queue only as the
\* message it decrypts and parses to, and only if that message matches the
\* role: an Offer at a polite peer, an Answer at an impolite one.
C7_OnlyRoleMatching ==
    [][\A p \in StudiedPeers :
          (pastes'[p] # pastes[p] /\ irx'[p] # irx[p]) =>
              /\ Len(irx'[p]) = Len(irx[p]) + 1
              /\ SubSeq(irx'[p], 1, Len(irx[p])) = irx[p]
              /\ FromJson(app'[p].input_text).ok
              /\ irx'[p][Len(irx'[p])] = FromJson(app'[p].input_text).msg
              /\ irx'[p][Len(irx'[p])].type = (IF args_polite[p] THEN "Offer" ELSE "Answer")]_vars

C7_Witness ==
    \E p \in StudiedPeers :
        /\ pastes[p] > 0
        /\ ~IsEmpty(app[p].input_text)
        /\ pc[p] = "loop"
        /\ Len(irx[p]) > 0

\* C8: a pasted text that is discarded (it fails decryption or parsing, so
\* nothing is delivered) does not put the application into its error or exit
\* state.
C8_DiscardedInputHarmless ==
    [][\A p \in StudiedPeers :
          (pastes'[p] # pastes[p] /\ irx'[p] = irx[p]) =>
              (app'[p].exit = app[p].exit /\ app'[p].error = app[p].error)]_vars

\* C9: when the WebSocket stream has ended or failed before the exchange was
\* finished and the negotiator has nothing left to receive, a fatal error is
\* on the error channel: the negotiator is not left blocked in its loop.
C9_CloseIsFatal ==
    \A p \in Peers :
        (sock[p] # "open" /\ task[p] = "ended" /\ pc[p] = "loop" /\ Len(rx[p]) = 0)
            => Len(errq[p]) > 0

\* C10: on the MQTT transport exactly the first message of send_message is
\* published with retain = true, every later one with retain = false.
C10_FirstRetained ==
    \A p \in Peers :
        \A i \in 1..Len(out[p]) :
            out[p][i].via = "send_message" => (out[p][i].retain <=> i = 1)

C10_Witness ==
    \E p \in Peers :
        /\ Len(out[p]) >= 3
        /\ \A i \in 1..3 : out[p][i].via = "send_message"
        /\ out[p][3].text.type = "Offer" \/ TryDecryptClaims(out[p][3].text, secret[p]).text.type = "Offer"

\* the Offers and the Answers of the session, over both peers
SessionCount(type) ==
    Cardinality({<<p, i>> \in Peers \X (1..(4 + MaxRerolls + MaxDups)) :
                    /\ i <= Len(out[p])
                    /\ TryDecryptClaims(out[p][i].text, secret[p]).text.type = type})

\* C11: over MQTT the session holds at most one Offer and at most one Answer,
\* exactly one of each once both peers are done, and no negotiator gets stuck
\* on the way, also when the broker delivers the remote peer's retained Uuid
\* to a peer more than once.
C11_OneOfferOneAnswer ==
    /\ SessionCount("Offer") <= 1
    /\ SessionCount("Answer") <= 1
    /\ (\A p \in Peers : pc[p] = "done") =>
          (SessionCount("Offer") = 1 /\ SessionCount("Answer") = 1)
    /\ \A p \in Peers : pc[p] # "blocked"

\* two connected clients, peer 1 sending its files to peer 2
XferStep(p) ==
    \/ XferProcessEvent(p) \/ MetaSend(p) \/ MetaFinish(p) \/ DataSend(p)
    \/ DataFinish(p) \/ OnMessage(p) \/ HandlerStep(p)

NextXfer == \E p \in Peers : XferStep(p)

SpecXfer == InitXfer /\ [][NextXfer]_vars

\* one file over a slow link, between users who may quit at any time
NextXferSlow ==
    \E p \in Peers : XferStep(p) \/ Drain(p) \/ KeyQuit(p) \/ AppCancel(p)

SpecXferSlow == InitXferSlow /\ [][NextXferSlow]_vars

(***************************************************************************)
(* The frames a peer sent, read back from the log of the data channel.     *)
(***************************************************************************)
\* the packets of what p sent; a text message counts as no packet
Packets(p) ==
    [k \in 1..Len(chan[p]) |->
        IF chan[p][k].is_string THEN NoPacket ELSE Unpack(chan[p][k].data)]

IsMeta(packet) == packet.ok /\ packet.meta

IsData(packet) == packet.ok /\ ~packet.meta

RECURSIVE Joined(_, _, _, _)
\* the payloads of the first n packets that carry this id and this meta flag, joined
Joined(packets, id, meta, n) ==
    IF n = 0
    THEN <<>>
    ELSE Joined(packets, id, meta, n - 1)
            \o (IF packets[n].ok /\ packets[n].id = id /\ packets[n].meta = meta
                THEN packets[n].binary
                ELSE <<>>)

\* C12: every data packet on the channel comes after the whole metadata JSON of
\* every enqueued file was sent, no meta packet follows a data packet, and a
\* data pass exists only once send_all_meta ended with MetaSent.
C12_MetaBeforeData ==
    \A p \in Peers :
        LET packets == Packets(p)
        IN  /\ \A k \in 1..Len(packets) :
                 IsData(packets[k]) =>
                     /\ \A j \in 1..Len(files) :
                          Joined(packets, files[j].id, TRUE, k - 1) = MetaJson(files[j].meta)
                     /\ \A j \in k..Len(packets) : ~IsMeta(packets[j])
            /\ data_task[p].st # "none" => meta_task[p].st = "done"

\* two files, and the data of the second is on the channel after a closing meta packet
C12_Witness ==
    /\ Len(files) = 2
    /\ \E k \in 1..Len(chan[1]) :
         /\ IsData(Packets(1)[k])
         /\ Packets(1)[k].id = 1
         /\ \E j \in 1..k : IsMeta(Packets(1)[j]) /\ Packets(1)[j].id = 1 /\ Packets(1)[j].last

\* a file send_next_file starts a data pass for
HasData(f) == ~f.meta.is_dir /\ f.meta.size > 0

RECURSIVE DataIds(_)
\* the ids of the files of a list that have a data pass, in the order of the list
DataIds(list) ==
    IF list = <<>>
    THEN <<>>
    ELSE (IF HasData(Head(list)) THEN <<Head(list).id>> ELSE <<>>) \o DataIds(Tail(list))

\* the ids of peer 1's files with a data pass, in enqueue order
DataFileIds == DataIds(files)

RECURSIVE FinishedIds(_)
\* the ids of the OutputFileFinished events of a log, in order: send_file_data
\* sends each right after the OutputFileProgress of 1.0 of its file
FinishedIds(log) ==
    IF Len(log) < 2
    THEN <<>>
    ELSE FinishedIds(SubSeq(log, 1, Len(log) - 1))
            \o (IF log[Len(log)].ev = "OutputFileFinished"
                THEN <<log[Len(log) - 1].id>>
                ELSE <<>>)

IsPrefix(a, b) == Len(a) <= Len(b) /\ a = SubSeq(b, 1, Len(a))

\* the passes of p are over: nothing runs and nothing on the bus starts a pass
Quiet(p) ==
    /\ meta_task[p].st = "done"
    /\ data_task[p].st # "run"
    /\ \A k \in 1..Len(bus[p]) : bus[p][k].ev \notin {"MetaSent", "OutputFileFinished"}

MetaPackets(p, id) ==
    LET Wanted(packet) == IsMeta(packet) /\ packet.id = id
    IN  SelectSeq(Packets(p), Wanted)

\* ceil(a / b)
CeilDiv(a, b) == (a + b - 1) \div b

\* send_all_meta is past the j-th file of the queue, or ended
MetaPassOver(p, j) ==
    \/ meta_task[p].st \in {"done", "panicked"}
    \/ meta_task[p].st = "run" /\ meta_task[p].i > j

\* C14: once the meta pass of a file is over, its meta packets are ceil(L/c) in
\* number for a JSON of L bytes and a capacity of c, their payloads joined are
\* the JSON, and the last of them and no other has is_last set.
C14_MetaChunking ==
    \A j \in 1..Len(files) :
        MetaPassOver(1, j) =>
            LET sent == MetaPackets(1, files[j].id)
                json == MetaJson(files[j].meta)
            IN  /\ Len(sent) = CeilDiv(Len(json), BufferSize(chunk_size))
                /\ Joined(sent, files[j].id, TRUE, Len(sent)) = json
                /\ \A n \in 1..Len(sent) : sent[n].last <=> n = Len(sent)

\* ids over the range of a u32 as far as the checker's integers reach
SampleIds == {0, 255, 65536, 2147483647}

\* a payload of n bytes
Blank(n) == [k \in 1..n |-> 0]

\* C15: every binary frame on the channel is at most chunk_size bytes long and
\* carries at most chunk_size - 13 bytes, and a packed frame is 13 bytes longer
\* than its payload whatever the id, the flags and the length of the payload.
C15_ChunkBound ==
    /\ \A p \in Peers :
         \A k \in 1..Len(chan[p]) :
             ~chan[p][k].is_string =>
                 /\ Len(chan[p][k].data) <= chunk_size
                 /\ Unpack(chan[p][k].data).ok
                 /\ Len(Unpack(chan[p][k].data).binary) <= chunk_size - BASE_LENGTH
                 /\ Len(chan[p][k].data) = BASE_LENGTH + Len(Unpack(chan[p][k].data).binary)
    /\ \A id \in SampleIds, meta \in BOOLEAN, last \in BOOLEAN, n \in 0..MaxPayload :
         Len(Pack(id, meta, last, Blank(n))) = BASE_LENGTH + n

\* a meta frame and a data frame that both fill chunk_size to the last byte
C15_Witness ==
    \E j, k \in 1..Len(chan[1]) :
        /\ IsMeta(Packets(1)[j]) /\ Len(chan[1][j].data) = chunk_size
        /\ IsData(Packets(1)[k]) /\ Len(chan[1][k].data) = chunk_size
        /\ chunk_size = BASE_LENGTH + MaxPayload

\* the data packets p sent for this id, in order
DataPackets(p, id) ==
    LET Wanted(packet) == IsData(packet) /\ packet.id = id
    IN  SelectSeq(Packets(p), Wanted)

\* the FileReceived messages p sent for this id
Receipts(p, id) ==
    LET Wanted(frame) == frame.is_string /\ MessageFromJson(frame.data) = FileReceived(id)
    IN  SelectSeq(chan[p], Wanted)

C17_ContentPreserved ==
    \A j \in 1..Len(files) :
        LET f == files[j]
            sent == DataPackets(1, f.id)
            bytes == Joined(sent, f.id, FALSE, Len(sent))
            content == Content(f.id, f.meta.size)
        IN  HasData(f) =>
                /\ IsPrefix(bytes, content)
                /\ (Len(sent) > 0 /\ sent[Len(sent)].last) => bytes = content
                /\ final[2][f.id].exists => final[2][f.id].bytes = content

\* a sender of p that was inside changed() comes out of it in this step
Woken(p) ==
    \/ meta_task[p].waiting /\ ~meta_task'[p].waiting
    \/ data_task[p].waiting /\ ~data_task'[p].waiting
    \/ handler[p].waiting /\ ~handler'[p].waiting

\* C18: a step that sends on the data channel is taken with the buffered amount
\* at or below the threshold, or by a sender that found it above, waited in
\* changed() and was woken by a buffer-low signal raised after its check.
C18_NoSendAboveThreshold ==
    [][\A p \in Peers : chan'[p] # chan[p] => (~buffered[p] \/ Woken(p))]_vars

\* on_message of p was called for a FileReceived of this id
Acknowledged(p, id) ==
    \E k \in 1..rcvd[p] :
        /\ chan[Other(p)][k].is_string
        /\ MessageFromJson(chan[Other(p)][k].data) = FileReceived(id)

\* the k-th event of a log is the report send_file_data sends at the end of a file
IsFinalReport(log, k) == k < Len(log) /\ log[k + 1].ev = "OutputFileFinished"

\* C19: for a file with data, every OutputFileProgress sent per chunk is at
\* most 0.99, and the progress the sender's display holds for the file is below
\* 1.0 as long as no FileReceived for its id has arrived.
C19_NoFullProgressBeforeAck ==
    \A j \in 1..Len(files) :
        LET f == files[j]
            log == event_log[1]
        IN  HasData(f) =>
                /\ \A k \in 1..Len(log) :
                     (log[k].ev = "OutputFileProgress" /\ log[k].id = f.id
                         /\ ~IsFinalReport(log, k))
                        => ~FracLess(<<99, 100>>, log[k].progress)
                /\ ~Acknowledged(1, f.id) => FracLess(output_map[1][f.id].progress, One)

IsSuffix(a, b) == Len(a) <= Len(b) /\ a = SubSeq(b, Len(b) - Len(a) + 1, Len(b))

\* handle_message of p was called for the closing data packet of this id
ClosingHandled(p, id) ==
    \E k \in 1..rcvd[p] :
        LET packet == Packets(Other(p))[k]
        IN  IsData(packet) /\ packet.id = id /\ packet.last

MetaClosingHandled(p, id) ==
    \E k \in 1..rcvd[p] :
        LET packet == Packets(Other(p))[k]
        IN  IsMeta(packet) /\ packet.id = id /\ packet.last

\* the sends of FileReceived(id) the running call of handle_message has left
PendingReceipts(p, id) ==
    LET Wanted(step) == step.op = "send" /\ step.msg = FileReceived(id)
    IN  SelectSeq(handler[p].todo, Wanted)

\* a MessageReceived(FileReceived(id)) waits for the main loop of p
ReceiptQueued(p, id) ==
    \E k \in 1..Len(bus[p]) : bus[p][k] = MessageReceived(FileReceived(id))

C28_FullProgressAfterRename ==
    \A j \in 1..Len(files) :
        LET f == files[j]
            log == event_log[2]
        IN  HasData(f) =>
                \A k \in 1..Len(log) :
                    (log[k].ev = "InputFileProgress" /\ log[k].id = f.id
                        /\ ~FracLess(log[k].progress, One))
                       => final[2][f.id].exists /\ ~part[2][f.id].exists

\* this step is on_message of p called for a data packet whose id has no
\* assembled metadata
DataWithoutMeta(p) ==
    /\ rcvd'[p] = rcvd[p] + 1
    /\ LET packet == Packets(Other(p))[rcvd[p] + 1]
       IN  IsData(packet) /\ packet.id \notin DOMAIN metadata_map[p]

\* C30: handling a data packet whose id has no assembled metadata, with or
\* without is_last, writes nothing to disk, sends no event, and neither sends
\* nor leaves to send any message to the peer.
C30_DataWithoutMetaDropped ==
    [][\A p \in Peers :
          DataWithoutMeta(p) =>
              /\ part' = part /\ final' = final
              /\ metadata_map' = metadata_map
              /\ bus' = bus /\ event_log' = event_log
              /\ chan'[p] = chan[p]
              /\ handler'[p].todo = <<>>]_vars

\* the receiver alone: every packet that arrived is handled in turn
NextRecv == \E p \in Peers : OnMessage(p) \/ HandlerStep(p) \/ XferProcessEvent(p)

SpecRecv == InitRecv /\ [][NextRecv]_vars

\* this step is on_message of p called for a meta packet whose id has
\* assembled metadata
RepeatedMeta(p) ==
    /\ rcvd'[p] = rcvd[p] + 1
    /\ LET packet == Packets(Other(p))[rcvd[p] + 1]
       IN  IsMeta(packet) /\ packet.id \in DOMAIN metadata_map[p]

\* C29: handling a meta packet, with or without is_last, for an id whose
\* metadata is assembled leaves the MetaData entry and its progress_bytes as
\* they are, sends no InputFileNew or InputFileProgress, and neither sends nor
\* leaves to send any FileReceived.
C29_RepeatedMetaIgnored ==
    [][\A p \in Peers :
          RepeatedMeta(p) =>
              /\ metadata_map' = metadata_map
              /\ event_log' = event_log
              /\ chan'[p] = chan[p]
              /\ handler'[p].todo = <<>>]_vars

\* the states a run publishes before it enters the receive loop
Opening == <<"ConnectingToServer", "ConnectedToServer", "UUIDSent">>

\* some state of the set is in the log before position k
Earlier(log, k, states) == \E j \in 1..(k - 1) : log[j] \in states

HsOrder(log) ==
    /\ \A k \in 1..Min(3, Len(log)) : log[k] = Opening[k]
    /\ \A k \in 1..Len(log) :
          /\ log[k] = "OfferSent" => Earlier(log, k, {"UUIDReceived"})
          /\ log[k] = "AnswerSent" => Earlier(log, k, {"OfferReceived"})
          /\ log[k] = "ExchangeFinished" =>
                Earlier(log, k, {"AnswerSent", "AnswerReceived"})
    /\ Count(log, "ExchangeFinished") <= 1

\* this step is the transport's disconnect of p: SignalingMqtt::close drops
\* the subscription, SignalingWebsocket::close closes the socket and ends the
\* receive task
Disconnects(p) ==
    \/ subscribed[p] /\ ~subscribed'[p]
    \/ sock[p] = "open" /\ sock'[p] = "closed" /\ task'[p] = "ended"

\* C27: the handshake states of a run start with ConnectingToServer,
\* ConnectedToServer, UUIDSent in this order; OfferSent comes only after a
\* UUIDReceived, AnswerSent only after an OfferReceived, ExchangeFinished at
\* most once and only after AnswerSent or AnswerReceived; and the transport's
\* disconnect is called only with ExchangeFinished published.
C27_HandshakeOrder ==
    [][\A p \in Peers :
          /\ HsOrder(HsLog(p))'
          /\ Disconnects(p) => Count(HsLog(p)', "ExchangeFinished") = 1]_vars

\* both runs are over and disconnected although a Uuid was delivered twice
C27_Witness ==
    /\ transport = "mqtt"
    /\ \E p \in Peers : dups[p] > 0
    /\ \A p \in Peers :
          /\ pc[p] = "done"
          /\ ~subscribed[p]
          /\ Count(HsLog(p), "ExchangeFinished") = 1

\* what the user does: paste, quit, dismiss the error screen
UserStep(p) ==
    \/ \E text \in ClipboardTexts(p) : KeyPaste(p, text)
    \/ KeyQuit(p)
    \/ ErrorLoopQuit(p)

\* what App::run does by itself
RunStep(p) ==
    \/ ProcessEvent(p)
    \/ CatchError(p)
    \/ AppCancel(p)
    \/ ErrorLoopEvent(p)
    \/ RunReturnsOk(p)

NextRun == \E p \in StudiedPeers : NegStep(p) \/ UserStep(p) \/ RunStep(p)

\* one client on the manual transport from start to the return of App::run:
\* the tasks and the loops are scheduled again and again, and select! takes a
\* branch that stays ready; the user is free to do nothing
SpecRun ==
    /\ InitManual
    /\ [][NextRun]_vars
    /\ \A p \in StudiedPeers :
          /\ WF_vars(NegStep(p))
          /\ WF_vars(ProcessEvent(p))
          /\ WF_vars(CatchError(p))
          /\ WF_vars(AppCancel(p))
          /\ WF_vars(ErrorLoopEvent(p))
          /\ WF_vars(RunReturnsOk(p))

\* C26 as stated: an error pushed on the error channel is eventually recorded
\* by the main loop, which exits, and the token is cancelled.
C26_ErrorAlwaysRecorded ==
    \A p \in StudiedPeers :
        (Len(errq[p]) > 0) ~> (app[p].error # "" /\ app[p].exit /\ token[p])

\* the return of App::run agrees with what the main loop recorded
RunResult(p) ==
    /\ app[p].error # "" => app[p].exit
    /\ token[p] => app[p].exit
    /\ app[p].result = "Err" => app[p].error # "" /\ token[p]
    /\ app[p].result = "Ok" => app[p].error = "" /\ token[p]

\* the error catcher records the error at the head of the channel, and a
\* recorded error stays
RecordsHead(p) ==
    /\ Len(errq'[p]) < Len(errq[p]) => app'[p].error = Head(errq[p]) /\ app'[p].exit
    /\ app[p].error # "" => app'[p].error = app[p].error

\* C26: an error pushed on the error channel while the main loop runs leads
\* to the main loop's exit and the cancellation of the token, with that error
\* recorded unless the user quit first; a recorded error ends the main loop,
\* run returns it only after the token was cancelled and the error screen was
\* dismissed, and run returns Ok only with no error recorded.
C26_ErrorEndsRun ==
    /\ [](\A p \in StudiedPeers : RunResult(p))
    /\ [][\A p \in StudiedPeers : RecordsHead(p)]_vars
    /\ \A p \in StudiedPeers :
          (Len(errq[p]) > 0) ~> (app[p].exit /\ token[p])
    /\ \A p \in StudiedPeers :
          (app[p].error = "" /\ token[p]) ~> (app[p].result = "Ok")

\* the negotiator failed, the main loop took its error from the channel, the
\* user dismissed the error screen and run returned the error
C26_Witness ==
    \E p \in StudiedPeers :
        /\ pc[p] = "failed"
        /\ errq[p] = <<>>
        /\ app[p].error \in {"WebRtc", "UuidClash"}
        /\ token[p]
        /\ app[p].result = "Err"

(***************************************************************************)
(* The rendezvous server: connect, join_room, send_history, broadcast_msg, *)
(* disconnect.  A step is what a connection does under one acquisition of  *)
(* the Rooms lock, or of a room's users or history lock without it.  A     *)
(* Room is known by its position in room_objs; the registry holds at most  *)
(* one of them under the room id.  The one lock that is held from one step *)
(* to the next is that of connect around send_history: a connection at     *)
(* "replaying" holds the Rooms lock and the lock of the history it sends.  *)
(***************************************************************************)
\* what no step of the server writes
clientVars == <<cfgVars, negVars, netVars, appVars, bus, errq, irx, dups, xferVars>>

\* Room::new
NewRoom == [users |-> {}, history |-> <<>>]

\* a frame of the user with this id: a text frame or another one
Frame(uid, n, is_text) == [is_text |-> is_text, from |-> uid, n |-> n]

\* UserMessage::new
UserMessage(frame) == [user_id |-> frame.from, msg |-> frame]

\* Message::text(user_msg.msg)
HistoryFrames(history) == [k \in 1..Len(history) |-> history[k].msg]

AddRoom == [ev |-> "AddRoom", id |-> 0]

RemoveRoom == [ev |-> "RemoveRoom", id |-> 0]

AddRoomUser(uid) == [ev |-> "AddRoomUser", id |-> uid]

RemoveRoomUser(uid) == [ev |-> "RemoveRoomUser", id |-> uid]

AddMessage(user_msg) == [ev |-> "AddMessage", id |-> user_msg.user_id]

\* sender.send_event of the server's tasks
SrvSends(event) == srv_log' = srv_log (+) SetToBag({event})

\* rooms.lock() returns: no connection holds the guard
RoomsFree == \A c \in Conns : conn[c].pc # "replaying"

\* history.lock() of this room returns
HistoryFree(r) == \A c \in Conns : ~(conn[c].pc = "replaying" /\ conn[c].held = r)

\* the WebSocket of the connection is open and its user is being served
Live(c) == conn[c].pc \in {"open", "sending", "appending"}

AdmitsAtCapacity(n) == n <= Capacity

\* join_room: users_lock.len() < room.capacity
Admits(n) == n < Capacity

\* join_room, under the Rooms lock and the lock of the room's users; a
\* connection that is not admitted ends, and its socket is closed
SrvJoin(c) ==
    LET created == rooms = 0
        r == IF created THEN Len(room_objs) + 1 ELSE rooms
        objs == IF created THEN Append(room_objs, NewRoom) ELSE room_objs
        admitted == Admits(Cardinality(objs[r].users))
    IN  /\ conn[c].pc = "idle"
        /\ srv_run.main = "serving"
        /\ RoomsFree
        /\ rooms' = r
        /\ room_objs' = IF admitted
                        THEN [objs EXCEPT ![r].users = @ \cup {next_userid}]
                        ELSE objs
        /\ next_userid' = IF admitted THEN next_userid + 1 ELSE next_userid
        /\ conn' = [conn EXCEPT ![c] =
                      IF admitted
                      THEN [@ EXCEPT !.pc = "joined", !.uid = next_userid, !.room = r,
                                     !.at_join = objs[r].history]
                      ELSE [@ EXCEPT !.pc = "closed"]]
        /\ IF created THEN SrvSends(AddRoom) ELSE UNCHANGED srv_log
        /\ UNCHANGED <<clientVars, srv_run>>

\* connect after join_room: rooms.lock(), and the room that is registered
\* under the id now; send_history takes the lock of its history
SrvReplay(c) ==
    /\ conn[c].pc = "joined"
    /\ RoomsFree
    /\ conn' = [conn EXCEPT ![c].pc = "replaying", ![c].held = rooms]
    /\ UNCHANGED <<clientVars, rooms, room_objs, next_userid, srv_log, srv_run>>

\* send_history: user_tx.send of the next message of the history, on the
\* WebSocket
SrvSendHistory(c) ==
    LET frames == HistoryFrames(room_objs[conn[c].held].history)
    IN  /\ conn[c].pc = "replaying"
        /\ conn[c].held # 0
        /\ Len(conn[c].socket) < Len(frames)
        /\ conn' = [conn EXCEPT ![c].socket = Append(@, frames[Len(@) + 1])]
        /\ UNCHANGED <<clientVars, rooms, room_objs, next_userid, srv_log, srv_run>>

\* connect after send_history: the locks are released, the forwarding task is
\* spawned and AddRoomUser is sent
SrvAdmit(c) ==
    /\ conn[c].pc = "replaying"
    /\ conn[c].held # 0 => Len(conn[c].socket) = Len(room_objs[conn[c].held].history)
    /\ conn' = [conn EXCEPT ![c].pc = "open", ![c].fwd = "running"]
    /\ SrvSends(AddRoomUser(conn[c].uid))
    /\ UNCHANGED <<clientVars, rooms, room_objs, next_userid, srv_run>>

\* the forwarding task: rx.recv(), user_tx.send(msg).  With the token
\* cancelled the branch `_ = token.cancelled() => {}` is ready as well; taking
\* it changes nothing, and the loop goes round again
SrvForward(c) ==
    /\ conn[c].fwd = "running"
    /\ Live(c)
    /\ Len(conn[c].rx) > 0
    /\ conn' = [conn EXCEPT ![c].rx = Tail(@),
                            ![c].socket = Append(@, Head(conn[c].rx))]
    /\ UNCHANGED <<clientVars, rooms, room_objs, next_userid, srv_log, srv_run>>

\* the forwarding task: rx.recv() is None once connect has returned and the
\* RoomUser with its tx is dropped
SrvForwardEnds(c) ==
    /\ conn[c].fwd = "running"
    /\ conn[c].pc = "closed"
    /\ conn' = [conn EXCEPT ![c].fwd = "ended"]
    /\ UNCHANGED <<clientVars, rooms, room_objs, next_userid, srv_log, srv_run>>

\* the users of a room the frame is sent to: user.id != *uid
Others(users, uid) == users \ {uid}

\* user_rx.next() is a frame: broadcast_msg as far as get_room; a frame that
\* is no text, or that finds no room under the id, is dropped
SrvFrame(c, is_text) ==
    LET frame == Frame(conn[c].uid, Len(conn[c].inbound) + 1, is_text)
    IN  /\ conn[c].pc = "open"
        /\ Len(conn[c].inbound) < MaxInbound
        /\ is_text => RoomsFree
        /\ conn' = [conn EXCEPT ![c] =
                      IF is_text /\ rooms # 0
                      THEN [@ EXCEPT !.inbound = Append(@, frame), !.held = rooms,
                                     !.pc = "sending"]
                      ELSE [@ EXCEPT !.inbound = Append(@, frame)]]
        /\ UNCHANGED <<clientVars, rooms, room_objs, next_userid, srv_log, srv_run>>

\* broadcast_msg: under the lock of the room's users, tx.send to every other
\* user
SrvSendOthers(c) ==
    LET frame == conn[c].inbound[Len(conn[c].inbound)]
        to == Others(room_objs[conn[c].held].users, conn[c].uid)
    IN  /\ conn[c].pc = "sending"
        /\ conn' = [d \in Conns |->
                      IF d = c
                      THEN [conn[d] EXCEPT !.pc = "appending"]
                      ELSE IF conn[d].uid \in to
                      THEN [conn[d] EXCEPT !.rx = Append(@, frame)]
                      ELSE conn[d]]
        /\ UNCHANGED <<clientVars, rooms, room_objs, next_userid, srv_log, srv_run>>

\* append_to_history: under the lock of the room's history, the push; then
\* AddMessage
SrvAppend(c) ==
    LET frame == conn[c].inbound[Len(conn[c].inbound)]
    IN  /\ conn[c].pc = "appending"
        /\ HistoryFree(conn[c].held)
        /\ room_objs' = [room_objs EXCEPT ![conn[c].held].history =
                            Append(@, UserMessage(frame))]
        /\ SrvSends(AddMessage(UserMessage(frame)))
        /\ conn' = [conn EXCEPT ![c].pc = "open"]
        /\ UNCHANGED <<clientVars, rooms, next_userid, srv_run>>

\* user_rx.next() is None: disconnect, get_room
SrvHangUp(c) ==
    /\ conn[c].pc = "open"
    /\ RoomsFree
    /\ conn' = [conn EXCEPT ![c].pc = IF rooms = 0 THEN "closed" ELSE "leaving",
                            ![c].held = rooms]
    /\ UNCHANGED <<clientVars, rooms, room_objs, next_userid, srv_log, srv_run>>

\* disconnect: room.users.lock().await.remove(&user.id), RemoveRoomUser
SrvRemoveUser(c) ==
    /\ conn[c].pc = "leaving"
    /\ room_objs' = [room_objs EXCEPT ![conn[c].held].users = @ \ {conn[c].uid}]
    /\ SrvSends(RemoveRoomUser(conn[c].uid))
    /\ conn' = [conn EXCEPT ![c].pc = "checking"]
    /\ UNCHANGED <<clientVars, rooms, next_userid, srv_run>>

\* disconnect: room.users.lock().await.is_empty()
SrvCheckEmpty(c) ==
    /\ conn[c].pc = "checking"
    /\ conn' = [conn EXCEPT ![c].pc =
                  IF room_objs[conn[c].held].users = {} THEN "removing" ELSE "closed"]
    /\ UNCHANGED <<clientVars, rooms, room_objs, next_userid, srv_log, srv_run>>

\* disconnect: rooms.lock().await.remove(&room.id), RemoveRoom
SrvRemoveRoom(c) ==
    /\ conn[c].pc = "removing"
    /\ RoomsFree
    /\ rooms' = 0
    /\ SrvSends(RemoveRoom)
    /\ conn' = [conn EXCEPT ![c].pc = "closed"]
    /\ UNCHANGED <<clientVars, room_objs, next_userid, srv_run>>

\* App::run: cancellation_token.cancel()
SrvCancel ==
    /\ ~srv_run.token
    /\ srv_run' = [srv_run EXCEPT !.token = TRUE]
    /\ UNCHANGED <<clientVars, rooms, room_objs, next_userid, conn, srv_log>>

\* startup: the select! around server::signal::main takes token.cancelled(),
\* and warp::serve is dropped
SrvMainEnds ==
    /\ srv_run.token
    /\ srv_run.main = "serving"
    /\ srv_run' = [srv_run EXCEPT !.main = "ended"]
    /\ UNCHANGED <<clientVars, rooms, room_objs, next_userid, conn, srv_log>>

SrvStep(c) ==
    \/ SrvJoin(c)
    \/ SrvReplay(c)
    \/ SrvSendHistory(c)
    \/ SrvAdmit(c)
    \/ SrvForward(c)
    \/ \E is_text \in BOOLEAN : SrvFrame(c, is_text)
    \/ SrvSendOthers(c)
    \/ SrvAppend(c)
    \/ SrvHangUp(c)
    \/ SrvRemoveUser(c)
    \/ SrvCheckEmpty(c)
    \/ SrvRemoveRoom(c)

NextServer == \E c \in Conns : SrvStep(c)

\* the server alone, its connections served by tasks that run in parallel
InitServer ==
    /\ transport = "ws"
    /\ args_polite = [p \in Peers |-> FALSE]
    /\ secret = [p \in Peers |-> 0]
    /\ uuid = [p \in Peers |-> UuidSample(p)]
    /\ InitCommon

SpecServer == InitServer /\ [][NextServer]_vars

\* this step is join_room of c
Joins(c) == conn[c].pc = "idle" /\ conn'[c].pc # "idle"

\* C22: no Room ever has more users than its capacity of 2, and join_room for
\* a connection that finds 2 users in the room ends the connection with no
\* RoomUser, no user id taken and no event sent, the registry and the two
\* users being left as they are.
C22_CapacityNeverExceeded ==
    [][/\ \A r \in 1..Len(room_objs') : Cardinality(room_objs'[r].users) <= Capacity
       /\ \A c \in Conns :
             (Joins(c) /\ rooms # 0 /\ Cardinality(room_objs[rooms].users) = Capacity)
                => /\ conn'[c].pc = "closed"
                   /\ conn'[c].uid = 0
                   /\ next_userid' = next_userid
                   /\ srv_log' = srv_log
                   /\ room_objs' = room_objs
                   /\ rooms' = rooms]_vars

\* a third connection was refused while both users of the room went on
C22_Witness ==
    /\ rooms # 0
    /\ Cardinality(room_objs[rooms].users) = Capacity
    /\ next_userid = Capacity + 1
    /\ \E c \in Conns :
          /\ conn[c].pc = "closed" /\ conn[c].uid = 0
          /\ \A d \in Conns \ {c} : conn[d].pc = "open" /\ Len(conn[d].socket) > 0

\* this step is broadcast_msg of c called for one more frame of its user
Inbound(c) == Len(conn'[c].inbound) = Len(conn[c].inbound) + 1

\* C23: a text frame of a user is put on the channel of every other user
\* registered in the user's room and on no other channel, is appended once to
\* that room's history, and one AddMessage is sent; a frame that is no text
\* changes no channel, no history, and sends no event.
C23_BroadcastToOthers ==
    [][\A c \in Conns :
          LET frame == conn'[c].inbound[Len(conn'[c].inbound)]
              r == conn[c].room
              to == {d \in Conns \ {c} : conn[d].uid \in room_objs[r].users}
          IN  /\ Inbound(c) =>
                    /\ \A d \in Conns : conn'[d].rx = conn[d].rx
                    /\ room_objs' = room_objs
                    /\ srv_log' = srv_log
                    /\ IF frame.is_text
                       THEN conn'[c].pc = "sending" /\ conn'[c].held = r
                       ELSE conn'[c].pc = "open"
              /\ (conn[c].pc = "sending" /\ conn'[c].pc # "sending") =>
                    /\ \A d \in Conns :
                          conn'[d].rx = IF d \in to THEN Append(conn[d].rx, frame)
                                        ELSE conn[d].rx
                    /\ conn'[c].pc = "appending"
              /\ (conn[c].pc = "appending" /\ conn'[c].pc # "appending") =>
                    /\ room_objs' = [room_objs EXCEPT ![r].history =
                                        Append(@, UserMessage(frame))]
                    /\ srv_log' = srv_log (+) SetToBag({AddMessage(UserMessage(frame))})]_vars

\* no join_room and no disconnect is under way
Quiescent == \A c \in Conns : conn[c].pc \notin {"leaving", "checking", "removing"}

\* this step ends disconnect of c
Leaves(c) == conn[c].pc \in {"checking", "removing"} /\ conn'[c].pc = "closed"

\* C24: a disconnect that ends with no user left in its room leaves the room
\* out of the registry, with RemoveRoom sent; with no join and no disconnect
\* under way the registry holds no room without users; and a connection that
\* joins when every user of the room has left gets a new room with an empty
\* history.
C24_EmptyRoomRemoved ==
    [][/\ \A c \in Conns :
             (Leaves(c) /\ room_objs'[conn[c].held].users = {})
                => /\ rooms' # conn[c].held
                   /\ BagIn(RemoveRoom, srv_log')
       /\ (Quiescent' /\ rooms' # 0) => room_objs'[rooms'].users # {}
       /\ \A c \in Conns :
             (Joins(c) /\ (rooms = 0 \/ room_objs[rooms].users = {}))
                => /\ rooms' = Len(room_objs) + 1
                   /\ conn'[c].room = rooms'
                   /\ room_objs'[rooms'].history = <<>>]_vars

\* this step ends the replay of the history to c, and its admission
Replays(c) == conn[c].pc = "replaying" /\ conn'[c].pc = "open"

\* C25: the replay to a newly admitted user sends it, as the first frames on
\* its socket and in history order, every message that was in the history of
\* its room when it joined, before any forwarded frame; the replay changes no
\* history and sends nothing to any other user.
C25_HistoryReplayed ==
    [][\A c \in Conns :
          /\ conn[c].pc = "joined" => conn[c].socket = <<>>
          /\ Replays(c) => IsPrefix(HistoryFrames(conn[c].at_join), conn'[c].socket)
          /\ (/\ conn[c].pc \in {"joined", "replaying"}
              /\ conn'[c].pc # conn[c].pc \/ conn'[c].socket # conn[c].socket) =>
                /\ room_objs' = room_objs
                /\ \A d \in Conns \ {c} : conn'[d].socket = conn[d].socket]_vars

(***************************************************************************)
(* Frames that are no Packet.                                              *)
(***************************************************************************)
\* the receiver with the main loop's error catcher and the cancellation of
\* App::run behind it
NextRecvBad ==
    \E p \in Peers :
        \/ OnMessage(p) \/ HandlerStep(p) \/ XferProcessEvent(p)
        \/ CatchError(p) \/ AppCancel(p)

SpecRecvBad == InitRecvBad /\ [][NextRecvBad]_vars

\* this step is on_message of p called for a binary frame that is no Packet
Malformed(p) ==
    /\ rcvd'[p] = rcvd[p] + 1
    /\ LET msg == chan[Other(p)][rcvd[p] + 1]
       IN  ~msg.is_string /\ ~Unpack(msg.data).ok

\* C31: a binary frame that does not decode to a Packet is dropped: handling
\* it pushes nothing on the error channel and changes nothing of the
\* receiver but the count of frames handled, no such error is ever recorded
\* by the application, and the handler stays free for the next frame.
C31_MalformedFrameDropped ==
    /\ [][\A p \in Peers :
            Malformed(p) =>
                /\ errq' = errq
                /\ handler'[p] = NoHandler
                /\ metadata_map' = metadata_map
                /\ metadata_bytes_map' = metadata_bytes_map
                /\ part' = part /\ final' = final
                /\ bus' = bus /\ event_log' = event_log]_vars
    /\ [](\A p \in Peers : app[p].error # "unpack")

(***************************************************************************)
(* The receiver's map of assembled metadata.                               *)
(***************************************************************************)
\* C35: every entry of the receiver's map of assembled metadata has
\* progress_bytes <= size, and an entry of a directory has size 0 and
\* progress_bytes 0, after every packet handled.
C35_ProgressWithinSize ==
    \A p \in Peers : \A id \in DOMAIN metadata_map[p] :
        LET entry == metadata_map[p][id]
        IN  /\ entry.progress_bytes <= entry.meta.size
            /\ entry.meta.is_dir => entry.meta.size = 0 /\ entry.progress_bytes = 0

(***************************************************************************)
(* await_threshold and the watch channel.                                  *)
(***************************************************************************)
\* the watch receivers of peer p: of the task of send_all_meta, of the task of
\* send_file_data, and of the call of handle_message that sends the receipts
Receivers(p) == <<meta_task[p], data_task[p], handler[p]>>

\* a sender that is suspended for good: the buffer is at or under the
\* threshold, and changed() has nothing to return for
Stranded(p, r) == r.waiting /\ ~buffered[p] /\ ~r.unseen

\* this step is on_buffered_amount_low of p
Signals(p) == buffered[p] /\ ~buffered'[p]

\* C36: no sender is ever left suspended in await_threshold with the buffered
\* amount at or under the threshold and no signal to see; the signal of
\* on_buffered_amount_low makes every suspended sender of the peer able to go
\* on, whether the sender had entered changed() or only compared the buffered
\* amount; and a sender leaves the wait only by sending what it waited to
\* send, with the signal marked as seen.
C36_NoLostWakeup ==
    /\ [](\A p \in Peers : \A k \in 1..3 : ~Stranded(p, Receivers(p)[k]))
    /\ [][\A p \in Peers : \A k \in 1..3 :
            LET r == Receivers(p)[k]
                after == Receivers(p)'[k]
            IN  /\ (Signals(p) /\ r.waiting) => after.waiting /\ after.unseen
                /\ (r.waiting /\ ~after.waiting) =>
                       /\ r.unseen /\ ~after.unseen
                       /\ Len(chan'[p]) = Len(chan[p]) + 1]_vars

\* the sender's buffer was signalled low during its data pass, and the call of
\* handle_message that sends the last receipts is suspended and was signalled
C36_Witness ==
    /\ ever_low[1]
    /\ data_task[1].st = "run"
    /\ handler[2].waiting /\ handler[2].unseen

(***************************************************************************)
(* handle_message called again while a call is under way.  Each call is    *)
(* followed from one lock() to the next: `at` tells the lock the call asks *)
(* for next, and with it the lock it holds meanwhile.  The link is not     *)
(* congested, so that a send never suspends the call.                      *)
(*   "first"   metadata_map.lock() of line 55 or 68, holding nothing       *)
(*   "bytes"   metadata_bytes_map.lock() of line 59, holding metadata_map  *)
(*   "second"  under `if packet.last`: metadata_bytes_map.lock() of line   *)
(*             102 or metadata_map.lock() of line 148, holding nothing     *)
(*   "insert"  metadata_map.lock() of line 106, holding metadata_bytes_map *)
(***************************************************************************)
\* the peer whose handler is followed
Receiver == 2

HoldsMetadataMap(h) == calls[h].at = "bytes"

HoldsMetadataBytesMap(h) == calls[h].at = "insert"

\* Mutex::lock returns when no call holds the guard
MetadataMapFree == \A h \in Calls : ~HoldsMetadataMap(h)

MetadataBytesMapFree == \A h \in Calls : ~HoldsMetadataBytesMap(h)

At(h, at) == calls' = [calls EXCEPT ![h].at = at]

Returns(h) == calls' = [calls EXCEPT ![h] = NoCall]

\* on_message calls handle_message for the next binary frame
CallBegin(h) ==
    LET p == Receiver
        msg == chan[Other(p)][rcvd[p] + 1]
    IN  /\ calls[h].at = "idle"
        /\ rcvd[p] < Len(chan[Other(p)])
        /\ ~msg.is_string /\ Unpack(msg.data).ok
        /\ rcvd' = [rcvd EXCEPT ![p] = @ + 1]
        /\ calls' = [calls EXCEPT ![h] = [at |-> "first", packet |-> Unpack(msg.data)]]
        /\ UNCHANGED <<recvFixed, app, token, busLog, errq, output_queue, output_map,
                       meta_task, data_task, chan, metadata_map, metadata_bytes_map,
                       part, final, handler, buffered, ever_low>>

\* `if packet.meta`: under the lock of metadata_map, the look-up of the id; or
\* else the whole branch of a data packet
CallFirst(h) ==
    LET p == Receiver
        packet == calls[h].packet
        found == packet.id \in DOMAIN metadata_map[p]
        n == Len(packet.binary)
    IN  /\ calls[h].at = "first"
        /\ MetadataMapFree
        /\ IF packet.meta
           THEN /\ At(h, IF found THEN "second" ELSE "bytes")
                /\ UNCHANGED <<busLog, metadata_map, part, chan, buffered>>
           ELSE IF found
           THEN LET metadata == metadata_map[p][packet.id]
                    progress_bytes == metadata.progress_bytes + n
                IN  /\ metadata_map' =
                         [metadata_map EXCEPT ![p][packet.id].progress_bytes = progress_bytes]
                    /\ part' = [part EXCEPT ![p][packet.id] = OnDisk(@.bytes \o packet.binary)]
                    /\ Records(p, <<InputFileProgress(packet.id,
                                                      <<progress_bytes, metadata.meta.size>>)>>)
                    /\ DcSend(p, Text(FilePacketReceived(packet.id, n)))
                    /\ At(h, "second")
           ELSE /\ At(h, "second")
                /\ UNCHANGED <<busLog, metadata_map, part, chan, buffered>>
        /\ UNCHANGED <<recvFixed, app, token, errq, output_queue, output_map, meta_task,
                       data_task, rcvd, metadata_bytes_map, final, handler, ever_low>>

\* the bytes of a meta packet whose id has no assembled metadata, under the
\* locks of both maps
CallBytes(h) ==
    LET p == Receiver
        packet == calls[h].packet
        old == metadata_bytes_map[p]
    IN  /\ calls[h].at = "bytes"
        /\ MetadataBytesMapFree
        /\ metadata_bytes_map' =
             [metadata_bytes_map EXCEPT ![p] =
                (packet.id :> ((IF packet.id \in DOMAIN old THEN old[packet.id] ELSE <<>>)
                                  \o packet.binary)) @@ old]
        /\ At(h, "second")
        /\ UNCHANGED <<recvFixed, app, token, busLog, errq, output_queue, output_map,
                       meta_task, data_task, chan, rcvd, metadata_map, part, final,
                       handler, buffered, ever_low>>

\* `if packet.last`: the look-up of the bytes of a meta packet under the lock
\* of metadata_bytes_map, or the rename and the receipt of a data packet under
\* the lock of metadata_map; a packet without `last` returns
CallSecond(h) ==
    LET p == Receiver
        packet == calls[h].packet
        found == packet.id \in DOMAIN metadata_map[p]
    IN  /\ calls[h].at = "second"
        /\ IF ~packet.last
           THEN /\ Returns(h)
                /\ UNCHANGED <<errq, part, final, chan, buffered>>
           ELSE IF packet.meta
           THEN /\ MetadataBytesMapFree
                /\ IF packet.id \in DOMAIN metadata_bytes_map[p]
                   THEN At(h, "insert")
                   ELSE Returns(h)
                /\ UNCHANGED <<errq, part, final, chan, buffered>>
           ELSE /\ MetadataMapFree
                /\ Returns(h)
                /\ IF found /\ ~part[p][packet.id].exists
                   THEN /\ errq' = [errq EXCEPT ![p] = Append(@, "rename")]
                        /\ UNCHANGED <<part, final, chan, buffered>>
                   ELSE /\ IF found
                           THEN /\ final' = [final EXCEPT ![p][packet.id] = part[p][packet.id]]
                                /\ part' = [part EXCEPT ![p][packet.id] = Absent]
                           ELSE UNCHANGED <<part, final>>
                        /\ DcSend(p, Text(FileReceived(packet.id)))
                        /\ UNCHANGED errq
        /\ UNCHANGED <<recvFixed, app, token, busLog, output_queue, output_map, meta_task,
                       data_task, rcvd, metadata_map, metadata_bytes_map, handler,
                       ever_low>>

\* the whole metadata is parsed and entered, under the locks of both maps
CallInsert(h) ==
    LET p == Receiver
        packet == calls[h].packet
        parsed == MetaFromJson(metadata_bytes_map[p][packet.id])
        value == parsed.meta
    IN  /\ calls[h].at = "insert"
        /\ MetadataMapFree
        /\ Returns(h)
        /\ IF ~parsed.ok
           THEN /\ errq' = [errq EXCEPT ![p] = Append(@, "serde_json")]
                /\ UNCHANGED <<busLog, metadata_map, final, chan, buffered>>
           ELSE /\ metadata_map' =
                     [metadata_map EXCEPT ![p] =
                        (packet.id :> [meta |-> value, progress_bytes |-> 0]) @@ @]
                /\ final' =
                     IF CompletesAtMeta(value) /\ ~final[p][packet.id].exists
                     THEN [final EXCEPT ![p][packet.id] = OnDisk(<<>>)]
                     ELSE final
                /\ Records(p,
                     IF value.is_dir THEN <<>>
                     ELSE IF value.size > 0 THEN <<InputFileNew(packet.id)>>
                     ELSE <<InputFileNew(packet.id), InputFileProgress(packet.id, One)>>)
                /\ IF CompletesAtMeta(value)
                   THEN DcSend(p, Text(FileReceived(packet.id)))
                   ELSE UNCHANGED <<chan, buffered>>
                /\ UNCHANGED errq
        /\ UNCHANGED <<recvFixed, app, token, output_queue, output_map, meta_task,
                       data_task, rcvd, metadata_bytes_map, part, handler, ever_low>>

CallStep(h) ==
    CallBegin(h) \/ CallFirst(h) \/ CallBytes(h) \/ CallSecond(h) \/ CallInsert(h)

NextReentry == \E h \in Calls : CallStep(h)

\* the receiver of SpecRecv, its handler called for a frame without waiting
\* for the call before to return
SpecReentry == InitRecv /\ [][NextReentry]_vars

\* the call holds the lock of one map and asks for the lock of the other
Waits(h) == calls[h].at \in {"bytes", "insert"}

\* C40: calls of the handler that run at the same time never take the locks
\* of metadata_map and metadata_bytes_map in opposite orders: no call asks
\* for the lock of metadata_bytes_map holding metadata_map while another
\* asks for the lock of metadata_map holding metadata_bytes_map, and so a
\* call that waits for a lock is always one that gets it.
C40_NoLockCycle ==
    \A h \in Calls :
        Waits(h) =>
            /\ \A g \in Calls \ {h} : Waits(g) => calls[g].at = calls[h].at
            /\ \E g \in Calls : ENABLED CallStep(g)

(***************************************************************************)
(* A broadcast and a join at the same time: what reaches the new user.     *)
(***************************************************************************)
\* the frames of a sequence
Frames(seq) == {seq[k] : k \in 1..Len(seq)}

\* the frame is on the socket more than once
Twice(c, frame) == Cardinality({k \in 1..Len(conn[c].socket) : conn[c].socket[k] = frame}) > 1

\* C37: no frame is sent to a user twice: the socket of a connection, which
\* takes the replay of the history and then what the forwarding task reads
\* from the user's channel, holds every frame at most once.
C37_AtMostOnce ==
    \A c \in Conns : \A frame \in Frames(conn[c].socket) : ~Twice(c, frame)

\* the user of the connection is admitted and its WebSocket is open
Served(c) == conn[c].fwd = "running" /\ Live(c)

\* C38: a message of another user that is in the history of the room a served
\* user has joined is on the user's socket or in its channel: it came with
\* the replay, or broadcast_msg has sent it to the user.
C38_NoMessageLost ==
    \A c \in Conns :
        Served(c) =>
            \A k \in 1..Len(room_objs[conn[c].room].history) :
                LET user_msg == room_objs[conn[c].room].history[k]
                IN  user_msg.user_id # conn[c].uid =>
                        user_msg.msg \in Frames(conn[c].socket) \cup Frames(conn[c].rx)

(***************************************************************************)
(* A join and disconnects at the same time: the room under the id.         *)
(***************************************************************************)
\* join_room has returned the user, and user_rx.next() has not been None
InRoom(c) == conn[c].pc \in {"joined", "replaying"} \/ Live(c)

\* this step is rooms.lock().await.remove(&room.id) of c's disconnect
Unregisters(c) == conn[c].pc = "removing" /\ conn'[c].pc = "closed"

\* the registry holds the room that c has joined, and c's user is in it
RegisteredInRoom(c) == rooms = conn[c].room /\ conn[c].uid \in room_objs[rooms].users

\* C39: every user that has joined and has not hung up is among the users of
\* the room that the registry holds, which is the room it has joined; and
\* the remove of a disconnect takes from the registry nothing or the room the
\* leaving user was in, with no user in it.
C39_RegistryHoldsJoinedUsers ==
    /\ [](\A c \in Conns : InRoom(c) => RegisteredInRoom(c))
    /\ [][\A c \in Conns :
            (Unregisters(c) /\ rooms # 0) =>
                /\ rooms = conn[c].room
                /\ room_objs[rooms].users = {}]_vars

(***************************************************************************)
(* The events of the server on the bus.  Every step sends at most one      *)
(* event, so the events sent so far are a prefix of the sequence the UI    *)
(* consumes: AddRoom and RemoveRoom alternate in it, AddRoom first, exactly*)
(* when in every state the AddRoom events are as many as the RemoveRoom    *)
(* events or one more.                                                     *)
(***************************************************************************)
\* the AddRoom events that no RemoveRoom event has followed
RoomsListed(log) == CopiesIn(AddRoom, log) - CopiesIn(RemoveRoom, log)

\* this step sends AddRoomUser
SendsAddRoomUser ==
    \E uid \in 1..next_userid :
        CopiesIn(AddRoomUser(uid), srv_log') > CopiesIn(AddRoomUser(uid), srv_log)

\* no connection is inside connect's join or inside broadcast_msg or
\* disconnect
Settled == \A c \in Conns : conn[c].pc \in {"idle", "open", "closed"}

\* C34: AddRoom and RemoveRoom alternate on the bus, AddRoom first; an
\* AddRoomUser is sent only after an AddRoom that no RemoveRoom has followed;
\* and when every connection has finished what it was doing, the room is in
\* the UI's list (its last event is AddRoom) exactly if the registry holds it.
C34_RoomEventsAlternate ==
    /\ [](RoomsListed(srv_log) \in {0, 1})
    /\ [][SendsAddRoomUser => RoomsListed(srv_log) = 1]_vars
    /\ [](Settled => (rooms # 0 <=> RoomsListed(srv_log) = 1))

(***************************************************************************)
(* The locks of the server.  The guards that a connection keeps from one   *)
(* step to the next are those of connect around send_history; every other *)
(* guard is taken and dropped within a step.                               *)
(***************************************************************************)
\* the connection holds the guard of rooms.lock()
HoldsRooms(c) == conn[c].pc = "replaying"

\* the connection holds the guard of history.lock() of a room
HoldsHistory(c) == conn[c].pc = "replaying" /\ conn[c].held # 0

\* the next step of the connection is a rooms.lock(): join_room, connect's
\* replay, get_room of broadcast_msg and disconnect, disconnect's remove
AsksRooms(c) == conn[c].pc \in {"idle", "joined", "open", "removing"}

\* the connection is inside connect's join, broadcast_msg or disconnect
Busy(c) == conn[c].pc \notin {"idle", "open", "closed"}

\* this step sends a frame on a WebSocket
SendsOnSocket == \E c \in Conns : conn'[c].socket # conn[c].socket

\* the order of the locks: who asks for the Rooms lock holds no other lock
LockOrder == \A c \in Conns : AsksRooms(c) => ~HoldsHistory(c) /\ ~HoldsRooms(c)

\* whenever a connection is inside an operation, a connection can step
NoDeadlock == (\E c \in Conns : Busy(c)) => \E c \in Conns : ENABLED SrvStep(c)

\* C33: a connection that asks for the Rooms lock holds no lock; the
\* operations of the connections never all wait for one another; and no
\* frame is sent on a WebSocket while a connection holds the Rooms lock.
C33_LockOrderAndScope ==
    /\ []LockOrder
    /\ []NoDeadlock
    /\ [][SendsOnSocket => RoomsFree]_vars

(***************************************************************************)
(* Cancellation of the root token while the server runs.  The clients send *)
(* no frames here: they connect, stay, and hang up when they choose to.    *)
(* What the server does by itself is fair; what the clients and the user   *)
(* do (a connection, a hang-up, the quit that cancels the token) is not.   *)
(***************************************************************************)
SrvStopStep(c) ==
    \/ SrvJoin(c)
    \/ SrvReplay(c)
    \/ SrvAdmit(c)
    \/ SrvForwardEnds(c)
    \/ SrvHangUp(c)
    \/ SrvRemoveUser(c)
    \/ SrvCheckEmpty(c)
    \/ SrvRemoveRoom(c)

NextServerStop ==
    \/ SrvCancel
    \/ SrvMainEnds
    \/ \E c \in Conns : SrvStopStep(c)

SpecServerStop ==
    /\ InitServer
    /\ [][NextServerStop]_vars
    /\ WF_vars(SrvMainEnds)
    /\ \A c \in Conns :
          /\ WF_vars(SrvReplay(c))
          /\ WF_vars(SrvAdmit(c))
          /\ WF_vars(SrvForwardEnds(c))
          /\ WF_vars(SrvRemoveUser(c))
          /\ WF_vars(SrvCheckEmpty(c))
          /\ WF_vars(SrvRemoveRoom(c))

\* no task of the server is running
ServerTasksEnded ==
    /\ srv_run.main = "ended"
    /\ \A c \in Conns : conn[c].fwd # "running"

\* C32: once the root token is cancelled, the server's main task and the
\* forwarding task of every user end.
C32_CancelEndsServerTasks == srv_run.token ~> ServerTasksEnded

====
